---- MODULE Spec2Model ----
(***************************************************************************)
(* A model of logninja's temporal log-analysis engine: the timestamp       *)
(* pattern library and extractor (internal/parser/timestamp.go), the       *)
(* bounds extractor (parser/bounds.go), the memory-mapped binary search    *)
(* (parser/mmap search), the histogram builder and the volume analyzer.    *)
(*                                                                         *)
(* Files are sequences of bytes.  A timestamp text is modelled as ONE byte *)
(* that carries its text class (which of the library's regexes match it,   *)
(* and which layouts parse it) and the instant it denotes; every other     *)
(* byte is a newline, a carriage return, a blank or ordinary text.         *)
(* Instants are small positive integers (nanoseconds); Go's zero           *)
(* time.Time is 0 and precedes all of them.                                *)
(***************************************************************************)
EXTENDS Integers, Sequences, FiniteSets, TLC

VARIABLES
    fs,           \* afero.Fs: whether it is an OsFs, and path -> [readable, data]
    ws,           \* models.WorkingSet: its Bundle (if any) and SelectedFiles
    pc,           \* position of the call in progress
    binCount,     \* the binCount argument
    globalRange,  \* *models.TimeRange: [isNil, Start, End]
    bins,         \* []TimeBin returned by createTimeBins
    startTime,    \* the startTime argument of a byte count
    endTime,      \* the endTime argument of a byte count
    mmapCount,    \* BinarySearchTimeRange's result
    linearCount,  \* countBytesInTimeRangeLinear's result
    detect1,      \* first DetectBestPattern result
    detect2,      \* second DetectBestPattern result
    isLog,        \* isLogFileByContent's result
    bounds,       \* ExtractBounds' result (TimeBounds and error)
    fileBounds,   \* []TimeBounds of ExtractBoundsFromWorkingSet
    volumePoints, \* []models.VolumePoint
    startPos,     \* binarySearchTime's result in start mode
    endPos,       \* binarySearchTime's result in end mode
    searcher,     \* the *MmapFileSearcher of countBytesInTimeRange
    mapErr,       \* the error NewMmapFileSearcher returned
    countResult,  \* what countBytesInTimeRange returned
    openFiles,    \* the files the process holds open
    mappings,     \* the memory mappings the process holds
    logLine,      \* the line given to ParseTimestamp
    hintPattern,  \* the bestPattern given to ParseTimestamp
    parsed,       \* what ParseTimestamp returned
    unixText,     \* the digits the Audit regex is given between ( and :
    unixParsed,   \* what parsing them with the unix layout returned
    maxDepth,     \* BundleScanner.maxDepth
    scannedFiles, \* the files of the Bundle ScanBundle returned
    loopState,   \* left, right and result of binarySearchTime's loop
    probeCount,  \* iterations the loop of binarySearchTime has run
    startMode,   \* the searchStart argument of binarySearchTime
    analysis,    \* the *VolumeDistribution AnalyzeDistribution returned
    volumeData,  \* WorkingSet.VolumeData
    lastUpdated,  \* WorkingSet.LastUpdated
    regexFilters,  \* WorkingSet.RegexFilters
    panel,       \* the regex panel's Model: patterns, cursor and edit state
    err           \* the error a batch call returned (Nil: none)

vars == <<fs, ws, pc, binCount, globalRange, bins, startTime, endTime,
          mmapCount, linearCount, detect1, detect2, isLog, bounds,
          fileBounds, volumePoints, err,
          startPos, endPos, searcher, mapErr, countResult, openFiles,
          mappings, logLine, hintPattern, parsed, unixText, unixParsed,
          maxDepth, scannedFiles, loopState, probeCount, startMode,
          analysis, volumeData, lastUpdated, regexFilters, panel>>

\* A nil error; a non-nil error is the text of its message.
Nil == "nil"

-----------------------------------------------------------------------------
(* Bounds of the model *)

MaxTime == 3
MaxBins == 3
MaxFileLines == 3
MaxSpan == 7

\* The greatest time.Duration (2^63 - 1 ns), scaled to the model's instants.
MaxDuration == 5

Time == 1..MaxTime
ZeroTime == 0

-----------------------------------------------------------------------------
(* Bytes *)

NL == [c |-> "nl", k |-> "", t |-> 0]
CR == [c |-> "cr", k |-> "", t |-> 0]
SP == [c |-> "sp", k |-> "", t |-> 0]
TX == [c |-> "x", k |-> "", t |-> 0]
TS(k, t) == [c |-> "ts", k |-> k, t |-> t]

IsSpace(b) == b.c \in {"sp", "cr", "nl"}

-----------------------------------------------------------------------------
(* The pattern library: compileDefaultPatterns *)

NumFormats == 11
NumPatterns == 2 * NumFormats
Patterns == 0..(NumPatterns - 1)

\* First pass (indices 0..10): "^" + regex.  Second pass (11..21): regex.
Anchored(p) == p < NumFormats
FormatOf(p) == IF p < NumFormats THEN p ELSE p - NumFormats
Priority(p) == p

(* Text classes, each standing for a timestamp text:                       *)
(*   isoZ   2024-01-01T00:00:0tZ   regexes ISO8601_Micro (0), ISO8601 (1); *)
(*          both layouts parse it (the micro layout by its variant         *)
(*          without sub-seconds).                                          *)
(*   iso    2024-01-01T00:00:0t    the same two regexes match (Z?), and no *)
(*          layout parses it: each layout ends in a literal Z.             *)
(*   slash  2024/01/01 00:00:0t    regex and layout DateTime_Slash (2).    *)
TextClasses == {"isoZ", "iso", "slash"}

RegexFormats(k) ==
    CASE k = "isoZ" -> {0, 1}
      [] k = "iso" -> {0, 1}
      [] k = "slash" -> {2}
      [] OTHER -> {}

LayoutFormats(k) ==
    CASE k = "isoZ" -> {0, 1}
      [] k = "slash" -> {2}
      [] OTHER -> {}

-----------------------------------------------------------------------------
(* Sequence helpers *)

\* Offsets are Go's, from 0: data[i] and data[a:b].
At(data, i) == data[i + 1]
Slice(data, a, b) == SubSeq(data, a + 1, b)

Min(a, b) == IF a <= b THEN a ELSE b
Max(a, b) == IF a >= b THEN a ELSE b

\* regexp.MatchString: "^re" matches at the line's first byte only, "re"
\* at its leftmost occurrence.
MatchIndex(line, p) ==
    LET hits == {i \in 1..Len(line) :
                    /\ line[i].c = "ts"
                    /\ FormatOf(p) \in RegexFormats(line[i].k)
                    /\ (Anchored(p) => i = 1)}
    IN IF hits = {} THEN 0 ELSE CHOOSE i \in hits : \A j \in hits : i <= j

MatchString(line, p) == MatchIndex(line, p) # 0

\* The nil *TimestampPattern.
NoPattern == -1

\* The zero time.Time and a non-nil error.
NoTimestamp == [ok |-> FALSE, t |-> ZeroTime]

\* parseTimestampWithPattern: the leftmost match of the pattern's regex,
\* parsed with the pattern's layout (and its sub-second variants).
parseTimestampWithPattern(line, p) ==
    LET i == MatchIndex(line, p)
    IN IF i = 0 THEN NoTimestamp
       ELSE IF FormatOf(p) \in LayoutFormats(line[i].k)
            THEN [ok |-> TRUE, t |-> line[i].t]
            ELSE NoTimestamp

\* The first of two parse attempts that succeeded.
OrElse(attempt, next) == IF attempt.ok THEN attempt ELSE next

\* The fallback loop of ParseTimestamp: every pattern from index p on, in
\* order.
RECURSIVE parseWithPatternsFrom(_, _)
parseWithPatternsFrom(line, p) ==
    IF p >= NumPatterns THEN NoTimestamp
    ELSE OrElse(parseTimestampWithPattern(line, p),
                parseWithPatternsFrom(line, p + 1))

\* A ParseTimestamp that tries the patterns in order, the best pattern at
\* its own place.
ParseTimestamp_InOrderOnly(line, bestPattern) ==
    parseWithPatternsFrom(line, 0)

\* ParseTimestamp: the best pattern first, then every pattern in order.
ParseTimestamp(line, bestPattern) ==
    OrElse(IF bestPattern = NoPattern THEN NoTimestamp
           ELSE parseTimestampWithPattern(line, bestPattern),
           parseWithPatternsFrom(line, 0))

\* bufio.ScanLines' dropCR.
dropCR(line) ==
    IF Len(line) > 0 /\ line[Len(line)] = CR
    THEN SubSeq(line, 1, Len(line) - 1) ELSE line

\* Index of the first newline of data at or after position i (1-based),
\* Len(data) + 1 when there is none.
RECURSIVE NextNL(_, _)
NextNL(data, i) ==
    IF i > Len(data) THEN Len(data) + 1
    ELSE IF data[i] = NL THEN i ELSE NextNL(data, i + 1)

\* The lines bufio.Scanner yields with its default split function: cut at
\* each newline, a trailing carriage return dropped, a final unterminated
\* line included when it is not empty.
RECURSIVE ScanLinesFrom(_, _)
ScanLinesFrom(data, i) ==
    IF i > Len(data) THEN <<>>
    ELSE LET e == NextNL(data, i)
         IN <<dropCR(SubSeq(data, i, e - 1))>> \o ScanLinesFrom(data, e + 1)

ScanLines(data) == ScanLinesFrom(data, 1)

\* strings.TrimSpace
RECURSIVE TrimLeft(_)
TrimLeft(line) ==
    IF line # <<>> /\ IsSpace(Head(line)) THEN TrimLeft(Tail(line)) ELSE line

RECURSIVE TrimRight(_)
TrimRight(line) ==
    IF line # <<>> /\ IsSpace(line[Len(line)])
    THEN TrimRight(SubSeq(line, 1, Len(line) - 1)) ELSE line

TrimSpace(line) == TrimRight(TrimLeft(line))

-----------------------------------------------------------------------------
(* TimestampExtractor.DetectBestPattern *)

maxLines == 10

\* The sampled lines: trimmed, the empty ones skipped, at most maxLines.
SampledLines(data) ==
    LET scanned == ScanLines(data)
        nonEmpty == SelectSeq([i \in 1..Len(scanned) |-> TrimSpace(scanned[i])],
                              LAMBDA l : l # <<>>)
    IN SubSeq(nonEmpty, 1, Min(Len(nonEmpty), maxLines))

\* patternMatches[i]: the sampled lines pattern i's regex matches.
RECURSIVE patternMatches(_, _)
patternMatches(lines, p) ==
    IF lines = <<>> THEN 0
    ELSE (IF MatchString(Head(lines), p) THEN 1 ELSE 0)
         + patternMatches(Tail(lines), p)

\* firstTimestamp[i]: the first sampled line that pattern i matches and
\* parses; the zero time when the map has no entry.
RECURSIVE firstTimestamp(_, _)
firstTimestamp(lines, p) ==
    IF lines = <<>> THEN ZeroTime
    ELSE IF parseTimestampWithPattern(Head(lines), p).ok
         THEN parseTimestampWithPattern(Head(lines), p).t
         ELSE firstTimestamp(Tail(lines), p)

\* The greatest counter of the map (0 when the map is empty).
RECURSIVE maxMatchesUpTo(_, _)
maxMatchesUpTo(lines, p) ==
    IF p < 0 THEN 0
    ELSE Max(patternMatches(lines, p), maxMatchesUpTo(lines, p - 1))

maxMatches(lines) == maxMatchesUpTo(lines, NumPatterns - 1)

(* The loop "for patternIndex, matches := range patternMatches" keeps the  *)
(* first key it meets whose counter exceeds every counter met before.  Go  *)
(* leaves a map's iteration order unspecified and randomizes it, so any    *)
(* key that holds the greatest counter can be met first among them: the    *)
(* loop's outcomes are exactly the keys holding the greatest counter.      *)
bestPatternIndexes(lines) ==
    LET most == maxMatches(lines)
    IN IF most = 0 THEN {}
       ELSE {p \in Patterns : patternMatches(lines, p) = most}

\* Confidence is the quotient float64(maxMatches) / float64(lineCount),
\* kept as the pair of its operands.
PatternDetectionResult(best, matches, sample, lineCount) ==
    [err |-> Nil, BestPattern |-> best, MatchCount |-> matches,
     SampleTime |-> sample, Confidence |-> [num |-> matches, den |-> lineCount]]

OpenError == "failed to open file"

\* The results DetectBestPattern can return for a file.
DetectBestPattern(file) ==
    IF ~file.readable
    THEN {[err |-> OpenError, BestPattern |-> NoPattern, MatchCount |-> 0,
           SampleTime |-> ZeroTime, Confidence |-> [num |-> 0, den |-> 1]]}
    ELSE LET lines == SampledLines(file.data)
             best == bestPatternIndexes(lines)
             most == maxMatches(lines)
         IN IF best = {}
            THEN {PatternDetectionResult(NoPattern, 0, ZeroTime, 1)}
            ELSE {PatternDetectionResult(p, most, firstTimestamp(lines, p),
                                         Len(lines)) : p \in best}

-----------------------------------------------------------------------------
(* BundleScanner.isLogFileByContent *)

minTimestampMatches == 2

\* minConfidence = 0.3, as the fraction 3/10.
minConfidenceNum == 3
minConfidenceDen == 10

(* result.Confidence >= minConfidence.  The quotient of two integers of at *)
(* most two digits is rounded to the nearest float64, as the literal 0.3   *)
(* is: the comparison of the floats agrees with that of the fractions.     *)
ConfidenceAtLeastMin(conf) ==
    conf.num * minConfidenceDen >= minConfidenceNum * conf.den

isLogFileByContent_LowThreshold(result) ==
    IF result.err # Nil THEN FALSE
    ELSE result.MatchCount >= 1 /\ ConfidenceAtLeastMin(result.Confidence)

\* The verdict on one DetectBestPattern result.
isLogFileByContent(result) ==
    IF result.err # Nil THEN FALSE
    ELSE /\ result.MatchCount >= minTimestampMatches
         /\ ConfidenceAtLeastMin(result.Confidence)

-----------------------------------------------------------------------------
(* BoundsExtractor.ExtractBounds *)

MaxLinesToCheckForTimestamp == 100

\* readSize of findLatestTimestamp: 64 * 1024
tailReadSize == 65536

\* FindLineWithTimestamp over the lines the scanner yields: the first of
\* at most maxLinesToCheck lines that parses.
RECURSIVE FindLineWithTimestamp(_, _, _, _)
FindLineWithTimestamp(lines, bestPattern, maxLinesToCheck, lineCount) ==
    IF lines = <<>> \/ ~(maxLinesToCheck <= 0 \/ lineCount < maxLinesToCheck)
    THEN NoTimestamp
    ELSE IF ParseTimestamp(Head(lines), bestPattern).ok
         THEN ParseTimestamp(Head(lines), bestPattern)
         ELSE FindLineWithTimestamp(Tail(lines), bestPattern, maxLinesToCheck,
                                    lineCount + 1)

findEarliestTimestamp(file, bestPattern) ==
    FindLineWithTimestamp(ScanLines(file.data), bestPattern,
                          MaxLinesToCheckForTimestamp, 0)

Reverse(seq) == [i \in 1..Len(seq) |-> seq[Len(seq) + 1 - i]]

\* splitLinesReverse: the buffer's lines, trimmed, the empty ones dropped,
\* last line first.
splitLinesReverse(buffer) ==
    LET scanned == ScanLines(buffer)
    IN Reverse(SelectSeq([i \in 1..Len(scanned) |-> TrimSpace(scanned[i])],
                         LAMBDA l : l # <<>>))

\* findLatestTimestampInBuffer: the first line from the bottom that parses.
RECURSIVE findLatestTimestampInBuffer(_, _)
findLatestTimestampInBuffer(lines, bestPattern) ==
    IF lines = <<>> THEN NoTimestamp
    ELSE IF ParseTimestamp(Head(lines), bestPattern).ok
         THEN ParseTimestamp(Head(lines), bestPattern)
         ELSE findLatestTimestampInBuffer(Tail(lines), bestPattern)

\* findLatestTimestamp: the last tailReadSize bytes, or the whole file.
findLatestTimestamp(file, bestPattern) ==
    LET fileSize == Len(file.data)
        readSize == IF fileSize < tailReadSize THEN fileSize ELSE tailReadSize
        seekPos == Max(fileSize - readSize, 0)
    IN findLatestTimestampInBuffer(
           splitLinesReverse(Slice(file.data, seekPos, fileSize)), bestPattern)

TimeBounds(path, valid, earliest, latest, best, error) ==
    [err |-> error, Valid |-> valid, Earliest |-> earliest, Latest |-> latest,
     BestPattern |-> best, FilePath |-> path]

\* ExtractBounds, given the result of its DetectBestPattern call.
ExtractBoundsWith(path, file, patternResult) ==
    IF patternResult.err # Nil
    THEN TimeBounds(path, FALSE, ZeroTime, ZeroTime, NoPattern,
                    "failed to detect timestamp pattern")
    ELSE IF patternResult.BestPattern = NoPattern
    THEN TimeBounds(path, FALSE, ZeroTime, ZeroTime, NoPattern, Nil)
    ELSE LET best == patternResult.BestPattern
             earliest == findEarliestTimestamp(file, best)
             latest == findLatestTimestamp(file, best)
         IN IF ~earliest.ok
            THEN TimeBounds(path, FALSE, ZeroTime, ZeroTime, best,
                            "failed to find earliest timestamp")
            ELSE IF ~latest.ok
            THEN TimeBounds(path, FALSE, ZeroTime, ZeroTime, best,
                            "failed to find latest timestamp")
            ELSE TimeBounds(path, TRUE, earliest.t, latest.t, best, Nil)

\* The results ExtractBounds can return for the file at a path.
ExtractBounds(path, file) ==
    {ExtractBoundsWith(path, file, r) : r \in DetectBestPattern(file)}

-----------------------------------------------------------------------------
(* models.TimeRange and HistogramBuilder.createTimeBins *)

\* NewTimeRange: nil (and an error) when start is after end.
NewTimeRange(start, end) ==
    IF start > end THEN [isNil |-> TRUE, Start |-> ZeroTime, End |-> ZeroTime]
    ELSE [isNil |-> FALSE, Start |-> start, End |-> end]

\* TimeRange.Duration: End.Sub(Start), which time.Time.Sub saturates at
\* the greatest time.Duration.
Duration(tr) == Min(tr.End - tr.Start, MaxDuration)

\* The loop of createTimeBins from bin i on.
RECURSIVE createTimeBinsFrom(_, _, _, _, _)
createTimeBinsFrom(i, currentTime, binDuration, globalEnd, n) ==
    IF i >= n THEN <<>>
    ELSE LET end == IF i = n - 1 THEN globalEnd
                    ELSE currentTime + binDuration
         IN <<[Start |-> currentTime, End |-> end]>>
            \o createTimeBinsFrom(i + 1, end, binDuration, globalEnd, n)

\* createTimeBins with the last bin's end left at its computed value.
createTimeBins_Unpinned(tr, n) ==
    createTimeBinsFrom(0, tr.Start, Duration(tr) \div n,
                       tr.Start + n * (Duration(tr) \div n), n)

createTimeBins(tr, n) ==
    createTimeBinsFrom(0, tr.Start, Duration(tr) \div n, tr.End, n)

-----------------------------------------------------------------------------
(* MmapFileSearcher *)

\* The backward loop of findLineStart from index i.
RECURSIVE findLineStartFrom(_, _)
findLineStartFrom(data, i) ==
    IF i < 0 THEN 0
    ELSE IF At(data, i) = NL THEN i + 1
    ELSE findLineStartFrom(data, i - 1)

findLineStart(data, pos) ==
    IF pos <= 0 THEN 0 ELSE findLineStartFrom(data, pos - 1)

RECURSIVE findLineEnd(_, _)
findLineEnd(data, pos) ==
    IF pos >= Len(data) THEN Len(data)
    ELSE IF At(data, pos) = NL THEN pos
    ELSE findLineEnd(data, pos + 1)

\* extractLineAt's line
extractLineAt(data, pos) ==
    LET lineStart == findLineStart(data, pos)
        lineEnd == findLineEnd(data, lineStart)
    IN IF lineStart >= lineEnd THEN <<>> ELSE Slice(data, lineStart, lineEnd)

\* parseTimestampAt's verdict on the line extracted.
parseLine(line, bestPattern) ==
    IF line = <<>> THEN NoTimestamp ELSE ParseTimestamp(line, bestPattern)

parseTimestampAt(data, bestPattern, pos) ==
    parseLine(extractLineAt(data, pos), bestPattern)

\* findNextValidTimestamp: -1 when no line from pos on parses.
RECURSIVE findNextValidTimestamp(_, _, _)
findNextValidTimestamp(data, bestPattern, pos) ==
    IF pos >= Len(data) THEN -1
    ELSE LET lineStart == findLineStart(data, pos)
             lineEnd == findLineEnd(data, lineStart)
         IN IF /\ lineEnd > lineStart
               /\ ParseTimestamp(Slice(data, lineStart, lineEnd), bestPattern).ok
            THEN lineStart
            ELSE findNextValidTimestamp(data, bestPattern, lineEnd + 1)

\* mid := left + (right-left)/2
Mid(s) == s.left + ((s.right - s.left) \div 2)

\* The end of an iteration that compares with "at or after the target" in
\* both modes.
compareAndMove_EndExclusive(data, targetTime, searchStart, s, lineStart, timestamp) ==
    IF ~timestamp.ok THEN [s EXCEPT !.right = Mid(s)]
    ELSE IF timestamp.t >= targetTime
    THEN [s EXCEPT !.right = Mid(s), !.result = lineStart]
    ELSE [s EXCEPT !.left = findLineEnd(data, lineStart) + 1]

\* The end of an iteration that gives up one byte of the window when the
\* comparison holds.
compareAndMove_ShrinkByOne(data, targetTime, searchStart, s, lineStart, timestamp) ==
    IF ~timestamp.ok THEN [s EXCEPT !.right = Mid(s)]
    ELSE IF (IF searchStart THEN timestamp.t >= targetTime
                            ELSE timestamp.t > targetTime)
    THEN [s EXCEPT !.right = s.right - 1, !.result = lineStart]
    ELSE [s EXCEPT !.left = findLineEnd(data, lineStart) + 1]

\* The end of an iteration that records the probed offset instead of the
\* start of the line compared.
compareAndMove_ResultIsMid(data, targetTime, searchStart, s, lineStart, timestamp) ==
    IF ~timestamp.ok THEN [s EXCEPT !.right = Mid(s)]
    ELSE IF (IF searchStart THEN timestamp.t >= targetTime
                            ELSE timestamp.t > targetTime)
    THEN [s EXCEPT !.right = Mid(s), !.result = Mid(s)]
    ELSE [s EXCEPT !.left = findLineEnd(data, lineStart) + 1]

\* The end of an iteration of binarySearchTime's loop, for the line at
\* lineStart and what parsing it gave: the comparison with the target, and
\* left, right and result after it.
compareAndMove(data, targetTime, searchStart, s, lineStart, timestamp) ==
    IF ~timestamp.ok THEN [s EXCEPT !.right = Mid(s)]
    ELSE IF (IF searchStart THEN timestamp.t >= targetTime
                            ELSE timestamp.t > targetTime)
    THEN [s EXCEPT !.right = Mid(s), !.result = lineStart]
    ELSE [s EXCEPT !.left = findLineEnd(data, lineStart) + 1]

\* An iteration that looks no further than the line at mid when it fails
\* to parse.
moveToNextValid_GiveUp(data, bestPattern, targetTime, searchStart, s, nextValidPos) ==
    [s EXCEPT !.right = Mid(s)]

\* The iteration after the line at mid failed to parse: on to the next
\* line that parses, if any.
moveToNextValid(data, bestPattern, targetTime, searchStart, s, nextValidPos) ==
    IF nextValidPos = -1 THEN [s EXCEPT !.right = Mid(s)]
    ELSE compareAndMove(data, targetTime, searchStart, s, nextValidPos,
                        parseTimestampAt(data, bestPattern, nextValidPos))

\* The iteration once the line at mid has been parsed.
stepAtLine(data, bestPattern, targetTime, searchStart, s, lineStart, timestamp) ==
    IF timestamp.ok
    THEN compareAndMove(data, targetTime, searchStart, s, lineStart, timestamp)
    ELSE moveToNextValid(data, bestPattern, targetTime, searchStart, s,
                         findNextValidTimestamp(data, bestPattern, lineStart))

\* The iteration from the start of the line that holds mid.
stepFromLine(data, bestPattern, targetTime, searchStart, s, lineStart) ==
    stepAtLine(data, bestPattern, targetTime, searchStart, s, lineStart,
               parseTimestampAt(data, bestPattern, lineStart))

\* One iteration of the loop of binarySearchTime: left, right and result
\* after it.
binarySearchStep(data, bestPattern, targetTime, searchStart, s) ==
    stepFromLine(data, bestPattern, targetTime, searchStart, s,
                 findLineStart(data, Mid(s)))

\* binarySearchTime: the loop runs from left = 0, right = result = the
\* size of the data until left >= right.
binarySearchTime(data, bestPattern, targetTime, searchStart) ==
    LET size == Len(data)
        binarySearchLoop[s \in [left : 0..(size + 1), right : 0..size,
                                result : 0..size]] ==
            IF s.left >= s.right THEN s.result
            ELSE binarySearchLoop[binarySearchStep(data, bestPattern,
                                                   targetTime, searchStart, s)]
    IN binarySearchLoop[[left |-> 0, right |-> size, result |-> size]]

\* The distance between two offsets, whichever comes first.
bytesBetween_Absolute(from, to) ==
    IF to > from THEN to - from ELSE from - to

\* endPos - startPos, or 0
bytesBetween(from, to) ==
    IF to > from THEN to - from ELSE 0

\* The byte count of BinarySearchTimeRange once both positions are found.
byteCountBetween(data, from, to) ==
    IF Len(data) = 0 THEN 0 ELSE bytesBetween(from, to)

BinarySearchTimeRange(data, bestPattern, start, end) ==
    byteCountBetween(data, binarySearchTime(data, bestPattern, start, TRUE),
                     binarySearchTime(data, bestPattern, end, FALSE))

-----------------------------------------------------------------------------
(* HistogramBuilder.countBytesInTimeRangeLinear *)

\* A loop that keeps the in-range flag at an entry before start.
RECURSIVE linearLoop_KeepsFlag(_, _, _, _, _, _)
linearLoop_KeepsFlag(lines, bestPattern, start, end, inRange, byteCount) ==
    IF lines = <<>> THEN byteCount
    ELSE LET line == Head(lines)
             lineBytes == Len(line) + 1
             timestamp == ParseTimestamp(line, bestPattern)
         IN IF timestamp.ok /\ timestamp.t > end THEN byteCount
            ELSE IF (timestamp.ok /\ timestamp.t >= start)
                     \/ (inRange /\ ~timestamp.ok)
                 THEN linearLoop_KeepsFlag(Tail(lines), bestPattern, start, end,
                                           TRUE, byteCount + lineBytes)
                 ELSE linearLoop_KeepsFlag(Tail(lines), bestPattern, start, end,
                                           inRange, byteCount)

\* The scanning loop: the byte count after the lines left to scan.
RECURSIVE linearLoop(_, _, _, _, _, _)
linearLoop(lines, bestPattern, start, end, inRange, byteCount) ==
    IF lines = <<>> THEN byteCount
    ELSE LET line == Head(lines)
             lineBytes == Len(line) + 1
             timestamp == ParseTimestamp(line, bestPattern)
         IN IF timestamp.ok
            THEN IF timestamp.t >= start /\ timestamp.t <= end
                 THEN linearLoop(Tail(lines), bestPattern, start, end, TRUE,
                                 byteCount + lineBytes)
                 ELSE IF timestamp.t > end THEN byteCount
                 ELSE linearLoop(Tail(lines), bestPattern, start, end, FALSE,
                                 byteCount)
            ELSE IF inRange
                 THEN linearLoop(Tail(lines), bestPattern, start, end, inRange,
                                 byteCount + lineBytes)
                 ELSE linearLoop(Tail(lines), bestPattern, start, end, inRange,
                                 byteCount)

countBytesInTimeRangeLinear(file, bestPattern, start, end) ==
    IF ~file.readable THEN [count |-> 0, err |-> OpenError]
    ELSE [count |-> linearLoop(ScanLines(file.data), bestPattern, start, end,
                               FALSE, 0),
          err |-> Nil]

-----------------------------------------------------------------------------
(* Values of the variables a specification does not use *)

\* Paths are sequences of components.
ThePath == <<"a.log">>

NoFile == [readable |-> FALSE, data |-> <<>>]

\* The zero time.Time and a non-nil error, for the unix layout.
NoUnixTime == [ok |-> FALSE, sec |-> <<>>, nsec |-> <<>>]

\* maxDepth: 10, // Default max depth
defaultMaxDepth == 10

\* A searcher that holds no file and no mapping.
NoSearcher == [file |-> FALSE, mapped |-> FALSE, data |-> <<>>]

\* A count of no bytes.
NoCount == [count |-> 0, err |-> Nil]

\* &VolumeDistribution{}
NoAnalysis ==
    [TotalLines |-> 0, TotalSize |-> 0, TotalFiles |-> 0,
     AveragePerBin |-> [num |-> 0, den |-> 1], PeakBinLines |-> 0,
     EmptyBins |-> 0, TimeSpan |-> <<>>]

\* PatternType
IncludeType == 0
ExcludeType == 1

\* NewModel(): no patterns, not editing, the next pattern an include.
NoPanel ==
    [patterns |-> <<>>, cursor |-> 0, editMode |-> FALSE, editInput |-> "",
     editIndex |-> -1, newPatternType |-> IncludeType, allFiles |-> {}]

\* No search loop is running.
NoLoop == [left |-> 0, right |-> 0, result |-> 0]

\* An OS filesystem that holds one file.
OneFileFs(f) == [isOsFs |-> TRUE, files |-> [p \in {ThePath} |-> f]]

\* A nil *WorkingSet.  A working set holds its bundle's root Path and Files
\* (each a relative Path and IsLogFile) and the paths SelectedFiles maps
\* to true.
NoWorkingSet == [isNil |-> TRUE, hasBundle |-> FALSE, Path |-> <<>>,
                 Files |-> <<>>, SelectedFiles |-> {}]
NoRange == [isNil |-> TRUE, Start |-> ZeroTime, End |-> ZeroTime]
NoDetection == [err |-> Nil, BestPattern |-> NoPattern, MatchCount |-> 0,
                SampleTime |-> ZeroTime, Confidence |-> [num |-> 0, den |-> 1]]
NoBounds == [err |-> Nil, Valid |-> FALSE, Earliest |-> ZeroTime,
             Latest |-> ZeroTime, BestPattern |-> NoPattern, FilePath |-> <<>>]

-----------------------------------------------------------------------------
(* File contents the specifications start from *)

MaxPadLines == 8
MaxCountLines == 2
MaxLineBytes == 2
UnixMargin == 1
MaxTreeDepth == 3
MaxTreeFiles == 1
MaxDepthArg == 2
MaxFilters == 2
MaxPatterns == 2

RECURSIVE Repeat(_, _)
Repeat(seq, n) == IF n = 0 THEN <<>> ELSE seq \o Repeat(seq, n - 1)

RECURSIVE Flatten(_)
Flatten(seqs) == IF seqs = <<>> THEN <<>> ELSE Head(seqs) \o Flatten(Tail(seqs))

SeqsUpTo(S, n) == UNION {[1..m -> S] : m \in 0..n}

\* The bytes of a file whose lines are given, each but possibly the last
\* ended by eol.
FileOfLinesEol(lines, eol, finalNewline) ==
    LET all == Flatten([i \in 1..Len(lines) |-> lines[i] \o eol])
    IN IF finalNewline \/ all = <<>> THEN all
       ELSE SubSeq(all, 1, Len(all) - Len(eol))

FileOfLines(lines, finalNewline) == FileOfLinesEol(lines, <<NL>>, finalNewline)

\* Lines a sampled file is made of: a timestamp at the line's start, one
\* after a blank, one the regexes match and no layout parses, and an empty
\* line.
DetectLines == {<<TS("isoZ", 1), TX>>, <<SP, TS("slash", 2)>>,
                <<TS("iso", 1)>>, <<>>}

\* An unreadable file, and the files of up to MaxFileLines such lines
\* followed by up to MaxPadLines lines of plain text; a file without such
\* padding may lack its final newline.
DetectFiles ==
    {NoFile} \cup
    {[readable |-> TRUE,
      data |-> FileOfLines(body \o Repeat(<<<<TX>>>>, shape[2]), shape[1])] :
        shape \in {sh \in BOOLEAN \X (0..MaxPadLines) : sh[1] \/ sh[2] = 0},
        body \in SeqsUpTo(DetectLines, MaxFileLines)}

-----------------------------------------------------------------------------
(* Detection and classification of one file *)

InitDetect ==
    /\ fs \in {OneFileFs(f) : f \in DetectFiles}
    /\ pc = "start"
    /\ ws = NoWorkingSet
    /\ binCount = 0
    /\ globalRange = NoRange
    /\ bins = <<>>
    /\ startTime = ZeroTime
    /\ endTime = ZeroTime
    /\ mmapCount = 0
    /\ linearCount = 0
    /\ detect1 = NoDetection
    /\ detect2 = NoDetection
    /\ isLog = FALSE
    /\ bounds = NoBounds
    /\ fileBounds = <<>>
    /\ volumePoints = <<>>
    /\ err = Nil
    /\ panel = NoPanel
    /\ regexFilters = <<>>
    /\ lastUpdated = ZeroTime
    /\ volumeData = <<>>
    /\ analysis = NoAnalysis
    /\ startMode = TRUE
    /\ probeCount = 0
    /\ loopState = NoLoop
    /\ scannedFiles = {}
    /\ maxDepth = defaultMaxDepth
    /\ unixParsed = NoUnixTime
    /\ unixText = <<>>
    /\ parsed = NoTimestamp
    /\ hintPattern = NoPattern
    /\ logLine = <<>>
    /\ mappings = 0
    /\ openFiles = 0
    /\ countResult = NoCount
    /\ mapErr = Nil
    /\ searcher = NoSearcher
    /\ endPos = 0
    /\ startPos = 0

\* A first call of DetectBestPattern on the file.
CallDetectBestPattern ==
    /\ pc = "start"
    /\ \E r \in DetectBestPattern(fs.files[ThePath]) : detect1' = r
    /\ pc' = "detected"
    /\ UNCHANGED <<fs, ws, binCount, globalRange, bins, startTime, endTime,
                   mmapCount, linearCount, detect2, isLog, bounds, fileBounds,
                   volumePoints, err,
                   startPos, endPos, searcher, mapErr, countResult, openFiles,
                   mappings, logLine, hintPattern, parsed, unixText,
                   unixParsed, maxDepth, scannedFiles, loopState,
                   probeCount, startMode, analysis, volumeData, lastUpdated,
                   regexFilters, panel>>

\* A second call on the same, unmodified file.
CallDetectBestPatternAgain ==
    /\ pc = "detected"
    /\ \E r \in DetectBestPattern(fs.files[ThePath]) : detect2' = r
    /\ pc' = "redetected"
    /\ UNCHANGED <<fs, ws, binCount, globalRange, bins, startTime, endTime,
                   mmapCount, linearCount, detect1, isLog, bounds, fileBounds,
                   volumePoints, err,
                   startPos, endPos, searcher, mapErr, countResult, openFiles,
                   mappings, logLine, hintPattern, parsed, unixText,
                   unixParsed, maxDepth, scannedFiles, loopState,
                   probeCount, startMode, analysis, volumeData, lastUpdated,
                   regexFilters, panel>>

\* The scanner classifies the file.
CallIsLogFileByContent ==
    /\ pc = "start"
    /\ \E r \in DetectBestPattern(fs.files[ThePath]) : isLog' = isLogFileByContent(r)
    /\ pc' = "classified"
    /\ UNCHANGED <<fs, ws, binCount, globalRange, bins, startTime, endTime,
                   mmapCount, linearCount, detect1, detect2, bounds, fileBounds,
                   volumePoints, err,
                   startPos, endPos, searcher, mapErr, countResult, openFiles,
                   mappings, logLine, hintPattern, parsed, unixText,
                   unixParsed, maxDepth, scannedFiles, loopState,
                   probeCount, startMode, analysis, volumeData, lastUpdated,
                   regexFilters, panel>>

NextDetect ==
    \/ CallDetectBestPattern
    \/ CallDetectBestPatternAgain
    \/ CallIsLogFileByContent

SpecDetect == InitDetect /\ [][NextDetect]_vars

-----------------------------------------------------------------------------
(* Binning of one time range *)

InitBins ==
    /\ \E s \in Time, d \in 0..MaxSpan : globalRange = NewTimeRange(s, s + d)
    /\ binCount \in 1..MaxBins
    /\ pc = "start"
    /\ fs = OneFileFs(NoFile)
    /\ ws = NoWorkingSet
    /\ bins = <<>>
    /\ startTime = ZeroTime
    /\ endTime = ZeroTime
    /\ mmapCount = 0
    /\ linearCount = 0
    /\ detect1 = NoDetection
    /\ detect2 = NoDetection
    /\ isLog = FALSE
    /\ bounds = NoBounds
    /\ fileBounds = <<>>
    /\ volumePoints = <<>>
    /\ err = Nil
    /\ panel = NoPanel
    /\ regexFilters = <<>>
    /\ lastUpdated = ZeroTime
    /\ volumeData = <<>>
    /\ analysis = NoAnalysis
    /\ startMode = TRUE
    /\ probeCount = 0
    /\ loopState = NoLoop
    /\ scannedFiles = {}
    /\ maxDepth = defaultMaxDepth
    /\ unixParsed = NoUnixTime
    /\ unixText = <<>>
    /\ parsed = NoTimestamp
    /\ hintPattern = NoPattern
    /\ logLine = <<>>
    /\ mappings = 0
    /\ openFiles = 0
    /\ countResult = NoCount
    /\ mapErr = Nil
    /\ searcher = NoSearcher
    /\ endPos = 0
    /\ startPos = 0

CallCreateTimeBins ==
    /\ pc = "start"
    /\ bins' = createTimeBins(globalRange, binCount)
    /\ pc' = "done"
    /\ UNCHANGED <<fs, ws, binCount, globalRange, startTime, endTime,
                   mmapCount, linearCount, detect1, detect2, isLog, bounds,
                   fileBounds, volumePoints, err,
                   startPos, endPos, searcher, mapErr, countResult, openFiles,
                   mappings, logLine, hintPattern, parsed, unixText,
                   unixParsed, maxDepth, scannedFiles, loopState,
                   probeCount, startMode, analysis, volumeData, lastUpdated,
                   regexFilters, panel>>

NextBins == CallCreateTimeBins

SpecBins == InitBins /\ [][NextBins]_vars

\* C1: for every range r and bin count n >= 1, createTimeBins returns
\* exactly n bins that are contiguous, cover r exactly and do not overlap.
C1_BinsPartitionRange ==
    pc = "done" =>
        /\ Len(bins) = binCount
        /\ \A i \in 1..(Len(bins) - 1) : bins[i].End = bins[i + 1].Start
        /\ bins[1].Start = globalRange.Start
        /\ bins[Len(bins)].End = globalRange.End
        /\ \A i \in 1..Len(bins) : bins[i].Start <= bins[i].End
        /\ \A i, j \in 1..Len(bins) : i < j => bins[i].End <= bins[j].Start

\* Three bins were cut from a range of two nanoseconds, and three from a
\* range whose duration is no multiple of three.
C1_Witness ==
    /\ pc = "done"
    /\ binCount = 3
    /\ Len(bins) = 3
    /\ globalRange.End - globalRange.Start \in {2, 7}

-----------------------------------------------------------------------------
(* Byte counts of one time range in one file *)

\* Lines of a searched file: a timestamped entry, a continuation line, an
\* empty line.
SearchLines == {<<TS("slash", t)>> : t \in Time} \cup {<<TX>>, <<>>}

\* The timestamps of the lines never decrease.
NonDecreasing(lines) ==
    \A i, j \in 1..Len(lines) :
        (i < j /\ lines[i] # <<>> /\ lines[j] # <<>>
           /\ lines[i][1].c = "ts" /\ lines[j][1].c = "ts")
            => lines[i][1].t <= lines[j][1].t

\* Non-empty files of up to MaxFileLines lines in timestamp order, ended
\* by "\n" or "\r\n", the last line possibly unterminated.
SearchFiles ==
    {f \in {[readable |-> TRUE, data |-> FileOfLinesEol(lines, eol, nl)] :
               lines \in {l \in SeqsUpTo(SearchLines, MaxFileLines) :
                             NonDecreasing(l)},
               eol \in {<<NL>>, <<CR, NL>>}, nl \in BOOLEAN} :
        f.data # <<>>}

InitSearch ==
    /\ fs \in {OneFileFs(f) : f \in SearchFiles}
    /\ detect1 \in DetectBestPattern(fs.files[ThePath])
    /\ startTime \in Time
    /\ endTime \in Time
    /\ pc = "start"
    /\ ws = NoWorkingSet
    /\ binCount = 0
    /\ globalRange = NoRange
    /\ bins = <<>>
    /\ mmapCount = 0
    /\ linearCount = 0
    /\ detect2 = NoDetection
    /\ isLog = FALSE
    /\ bounds = NoBounds
    /\ fileBounds = <<>>
    /\ volumePoints = <<>>
    /\ err = Nil
    /\ panel = NoPanel
    /\ regexFilters = <<>>
    /\ lastUpdated = ZeroTime
    /\ volumeData = <<>>
    /\ analysis = NoAnalysis
    /\ startMode = TRUE
    /\ probeCount = 0
    /\ loopState = NoLoop
    /\ scannedFiles = {}
    /\ maxDepth = defaultMaxDepth
    /\ unixParsed = NoUnixTime
    /\ unixText = <<>>
    /\ parsed = NoTimestamp
    /\ hintPattern = NoPattern
    /\ logLine = <<>>
    /\ mappings = 0
    /\ openFiles = 0
    /\ countResult = NoCount
    /\ mapErr = Nil
    /\ searcher = NoSearcher
    /\ endPos = 0
    /\ startPos = 0

\* The mapped file is searched with the pattern detected for it.
CallBinarySearchTimeRange ==
    /\ pc = "start"
    /\ startPos' = binarySearchTime(fs.files[ThePath].data, detect1.BestPattern,
                                    startTime, TRUE)
    /\ endPos' = binarySearchTime(fs.files[ThePath].data, detect1.BestPattern,
                                  endTime, FALSE)
    /\ mmapCount' = byteCountBetween(fs.files[ThePath].data, startPos', endPos')
    /\ pc' = "searched"
    /\ UNCHANGED <<fs, ws, binCount, globalRange, bins, startTime, endTime,
                   linearCount, detect1, detect2, isLog, bounds, fileBounds,
                   volumePoints, err, searcher, mapErr, countResult,
                   openFiles, mappings, logLine, hintPattern, parsed,
                   unixText, unixParsed, maxDepth, scannedFiles, loopState,
                   probeCount, startMode, analysis, volumeData, lastUpdated,
                   regexFilters, panel>>

CallCountBytesInTimeRangeLinear ==
    /\ pc = "searched"
    /\ LET r == countBytesInTimeRangeLinear(fs.files[ThePath], detect1.BestPattern,
                                            startTime, endTime)
       IN linearCount' = r.count /\ err' = r.err
    /\ pc' = "done"
    /\ UNCHANGED <<fs, ws, binCount, globalRange, bins, startTime, endTime,
                   mmapCount, detect1, detect2, isLog, bounds, fileBounds,
                   volumePoints,
                   startPos, endPos, searcher, mapErr, countResult, openFiles,
                   mappings, logLine, hintPattern, parsed, unixText,
                   unixParsed, maxDepth, scannedFiles, loopState,
                   probeCount, startMode, analysis, volumeData, lastUpdated,
                   regexFilters, panel>>

NextSearch ==
    \/ CallBinarySearchTimeRange
    \/ CallCountBytesInTimeRangeLinear

SpecSearch == InitSearch /\ [][NextSearch]_vars

\* The lines of the mapped file, cut at each newline.
RECURSIVE MappedLinesFrom(_, _)
MappedLinesFrom(data, pos) ==
    IF pos >= Len(data) THEN <<>>
    ELSE <<Slice(data, pos, findLineEnd(data, pos))>>
         \o MappedLinesFrom(data, findLineEnd(data, pos) + 1)

\* The timestamps of the file never decrease with byte position.
TimestampsNonDecreasing ==
    LET lines == MappedLinesFrom(fs.files[ThePath].data, 0)
        stamp == [i \in 1..Len(lines) |->
                     ParseTimestamp(lines[i], detect1.BestPattern)]
    IN \A i, j \in 1..Len(lines) :
          (i < j /\ stamp[i].ok /\ stamp[j].ok) => stamp[i].t <= stamp[j].t

\* C2: on a file whose timestamps never decrease, BinarySearchTimeRange
\* and countBytesInTimeRangeLinear return the same byte count for every
\* start and end.
C2_BinaryEqualsLinear ==
    (pc = "done" /\ TimestampsNonDecreasing) => mmapCount = linearCount

-----------------------------------------------------------------------------
(* Claims about detection and classification (SpecDetect) *)

TheSample == SampledLines(fs.files[ThePath].data)

\* The lines of a sample that a pattern's regex matches, and the greatest
\* number of them any pattern matches.
SampleMatchedBy(sample, p) ==
    {i \in 1..Len(sample) : MatchString(sample[i], p)}
MostSampleMatches(sample) ==
    LET counts == {Cardinality(SampleMatchedBy(sample, p)) : p \in Patterns}
    IN CHOOSE n \in counts : \A m \in counts : m <= n

\* C4: when several patterns share the highest match count over the
\* sampled lines, DetectBestPattern returns the one of lowest index in the
\* pattern library.
C4_LowestIndexWinsTies ==
    (pc \in {"detected", "redetected"} /\ detect1.BestPattern # NoPattern) =>
        LET sample == TheSample
            most == MostSampleMatches(sample)
        IN \A p \in Patterns :
            Cardinality(SampleMatchedBy(sample, p)) = most
                => detect1.BestPattern <= p

\* C5: two calls of DetectBestPattern on the same unmodified file return
\* identical results (best pattern, match count, sample time, confidence).
C5_DetectionIsRepeatable ==
    pc = "redetected" => detect1 = detect2

\* C6: the classifier accepts a file exactly when it is readable, the best
\* pattern matched at least 2 sampled lines and matches / sampled lines is
\* at least 0.3; so it rejects a file with one timestamp-like line and
\* accepts one with 3 matching lines among 10.
C6_ClassifierRule ==
    pc = "classified" =>
        LET sample == TheSample
            most == MostSampleMatches(sample)
        IN /\ isLog = (/\ fs.files[ThePath].readable
                       /\ most >= 2
                       /\ 10 * most >= 3 * Len(sample))
           /\ Cardinality(UNION {SampleMatchedBy(sample, q) : q \in Patterns}) = 1
                  => ~isLog
           /\ (Len(sample) = 10 /\ most = 3) => isLog

\* A file with exactly 3 matching lines among 10 sampled has been accepted.
C6_Witness ==
    /\ pc = "classified"
    /\ isLog
    /\ Len(TheSample) = 10
    /\ MostSampleMatches(TheSample) = 3

-----------------------------------------------------------------------------
(* Specification of ExtractBounds on one file *)

\* Lines a bounded file is made of: a timestamp of each instant, a line
\* holding two timestamps of different formats after a blank, a timestamp
\* the regexes match and no layout parses, plain text, and an empty line.
BoundsLines == {<<TS("slash", t)>> : t \in Time}
               \cup {<<SP, TS("slash", 1), TS("isoZ", 2)>>,
                     <<TS("iso", 1)>>, <<TX>>, <<>>}

\* An unreadable file, the files of up to MaxFileLines such lines, and the
\* files of at most one such line below MaxLinesToCheckForTimestamp empty
\* lines.
BoundsFiles ==
    {NoFile} \cup
    {[readable |-> TRUE, data |-> FileOfLines(lines, nl)] :
        lines \in SeqsUpTo(BoundsLines, MaxFileLines), nl \in BOOLEAN}
    \cup
    {[readable |-> TRUE,
      data |-> Repeat(<<NL>>, MaxLinesToCheckForTimestamp)
               \o FileOfLines(lines, TRUE)] :
        lines \in SeqsUpTo(BoundsLines, 1)}

InitBounds ==
    /\ fs \in {OneFileFs(f) : f \in BoundsFiles}
    /\ ws = NoWorkingSet
    /\ pc = "start"
    /\ binCount = 0
    /\ globalRange = NoRange
    /\ bins = <<>>
    /\ startTime = ZeroTime
    /\ endTime = ZeroTime
    /\ mmapCount = 0
    /\ linearCount = 0
    /\ detect1 = NoDetection
    /\ detect2 = NoDetection
    /\ isLog = FALSE
    /\ bounds = NoBounds
    /\ fileBounds = <<>>
    /\ volumePoints = <<>>
    /\ err = Nil
    /\ panel = NoPanel
    /\ regexFilters = <<>>
    /\ lastUpdated = ZeroTime
    /\ volumeData = <<>>
    /\ analysis = NoAnalysis
    /\ startMode = TRUE
    /\ probeCount = 0
    /\ loopState = NoLoop
    /\ scannedFiles = {}
    /\ maxDepth = defaultMaxDepth
    /\ unixParsed = NoUnixTime
    /\ unixText = <<>>
    /\ parsed = NoTimestamp
    /\ hintPattern = NoPattern
    /\ logLine = <<>>
    /\ mappings = 0
    /\ openFiles = 0
    /\ countResult = NoCount
    /\ mapErr = Nil
    /\ searcher = NoSearcher
    /\ endPos = 0
    /\ startPos = 0

\* bounds, err := be.ExtractBounds(path)
CallExtractBounds ==
    /\ pc = "start"
    /\ \E b \in ExtractBounds(ThePath, fs.files[ThePath]) : bounds' = b
    /\ pc' = "extracted"
    /\ UNCHANGED <<fs, ws, binCount, globalRange, bins, startTime, endTime,
                   mmapCount, linearCount, detect1, detect2, isLog,
                   fileBounds, volumePoints, err,
                   startPos, endPos, searcher, mapErr, countResult, openFiles,
                   mappings, logLine, hintPattern, parsed, unixText,
                   unixParsed, maxDepth, scannedFiles, loopState,
                   probeCount, startMode, analysis, volumeData, lastUpdated,
                   regexFilters, panel>>

NextBounds == CallExtractBounds

SpecBounds == InitBounds /\ [][NextBounds]_vars

\* C3: bounds that ExtractBounds reports as valid have their earliest
\* timestamp at or before their latest timestamp.
C3_ValidBoundsAreOrdered ==
    (pc = "extracted" /\ bounds.Valid) => bounds.Earliest <= bounds.Latest

\* C8: ExtractBounds on a file that can be opened and read returns a nil
\* error, whatever the file holds.
C8_ReadableFileGivesNoError ==
    (pc = "extracted" /\ fs.files[ThePath].readable) => bounds.err = Nil

-----------------------------------------------------------------------------
(* BoundsExtractor.ExtractBoundsFromWorkingSet and FindGlobalTimeBounds *)

\* Bundle.GetAbsolutePath: filepath.Join(b.Path, relativePath)
GetAbsolutePath(bundle, relativePath) == bundle.Path \o relativePath

\* The loop of ExtractBoundsFromWorkingSet that stops at the first file
\* whose extraction returns an error.
RECURSIVE extractBoundsLoop_AbortOnError(_, _, _)
extractBoundsLoop_AbortOnError(filesystem, workingSet, files) ==
    IF files = <<>> THEN {<<>>}
    ELSE LET file == Head(files)
             absolutePath == GetAbsolutePath(workingSet, file.Path)
         IN IF ~(file.Path \in workingSet.SelectedFiles) \/ ~file.IsLogFile
            THEN extractBoundsLoop_AbortOnError(filesystem, workingSet,
                                                Tail(files))
            ELSE UNION {
                   IF b.err # Nil THEN {<<>>}
                   ELSE {(IF b.Valid THEN <<b>> ELSE <<>>) \o r :
                           r \in extractBoundsLoop_AbortOnError(
                                     filesystem, workingSet, Tail(files))} :
                   b \in ExtractBounds(absolutePath,
                                       filesystem.files[absolutePath])}

\* The loop of ExtractBoundsFromWorkingSet over the bundle files left: the
\* lists it can append.
RECURSIVE extractBoundsLoop(_, _, _)
extractBoundsLoop(filesystem, workingSet, files) ==
    IF files = <<>> THEN {<<>>}
    ELSE LET file == Head(files)
             absolutePath == GetAbsolutePath(workingSet, file.Path)
             rest == extractBoundsLoop(filesystem, workingSet, Tail(files))
         IN IF ~(file.Path \in workingSet.SelectedFiles) \/ ~file.IsLogFile
            THEN rest
            ELSE UNION {
                   {(IF b.err # Nil THEN <<>>
                     ELSE IF b.Valid THEN <<b>> ELSE <<>>) \o r : r \in rest} :
                   b \in ExtractBounds(absolutePath,
                                       filesystem.files[absolutePath])}

\* The results ExtractBoundsFromWorkingSet can return.
ExtractBoundsFromWorkingSet(filesystem, workingSet) ==
    IF workingSet.isNil \/ ~workingSet.hasBundle
    THEN {[bounds |-> <<>>, err |-> "invalid working set"]}
    ELSE {[bounds |-> l, err |-> Nil] :
            l \in extractBoundsLoop(filesystem, workingSet, workingSet.Files)}

\* The loop of FindGlobalTimeBounds over the entries left.
RECURSIVE findGlobalLoop(_, _, _, _)
findGlobalLoop(boundsLeft, initialized, earliest, latest) ==
    IF boundsLeft = <<>>
    THEN [initialized |-> initialized, earliest |-> earliest, latest |-> latest]
    ELSE LET bound == Head(boundsLeft)
         IN IF ~bound.Valid
            THEN findGlobalLoop(Tail(boundsLeft), initialized, earliest, latest)
            ELSE IF ~initialized
            THEN findGlobalLoop(Tail(boundsLeft), TRUE, bound.Earliest,
                                bound.Latest)
            ELSE findGlobalLoop(Tail(boundsLeft), TRUE,
                                IF bound.Earliest < earliest
                                THEN bound.Earliest ELSE earliest,
                                IF bound.Latest > latest
                                THEN bound.Latest ELSE latest)

\* FindGlobalTimeBounds: the range NewTimeRange returns, its error dropped.
FindGlobalTimeBounds(boundsList) ==
    IF Len(boundsList) = 0 THEN NoRange
    ELSE LET r == findGlobalLoop(boundsList, FALSE, ZeroTime, ZeroTime)
         IN IF ~r.initialized THEN NoRange
            ELSE NewTimeRange(r.earliest, r.latest)

-----------------------------------------------------------------------------
(* Specification of bounds extraction over a working set *)

BundlePath == <<"bundle">>
FileA == <<"a.log">>
FileB == <<"b.log">>

\* Working sets over a bundle of two files, each flagged IsLogFile or not
\* and selected or not; a nil working set; one whose Bundle is nil.
WorkingSets ==
    {NoWorkingSet, [NoWorkingSet EXCEPT !.isNil = FALSE]} \cup
    {[isNil |-> FALSE, hasBundle |-> TRUE, Path |-> BundlePath,
      Files |-> <<[Path |-> FileA, IsLogFile |-> la],
                  [Path |-> FileB, IsLogFile |-> lb]>>,
      SelectedFiles |-> sel] :
        la \in BOOLEAN, lb \in BOOLEAN, sel \in SUBSET {FileA, FileB}}

\* Files of a bundle: unreadable, plain text, a timestamp no layout parses,
\* a line of two timestamps after a blank, and one or two timestamped
\* lines in any order.
BundleFiles ==
    {NoFile} \cup
    {[readable |-> TRUE, data |-> FileOfLines(<<l>>, TRUE)] :
        l \in {<<TX>>, <<TS("iso", 1)>>, <<SP, TS("slash", 1), TS("isoZ", 2)>>}}
    \cup
    {[readable |-> TRUE, data |-> FileOfLines(<<<<TS("slash", t)>>>>, TRUE)] :
        t \in Time}
    \cup
    {[readable |-> TRUE,
      data |-> FileOfLines(<<<<TS("slash", t1), TX>>, <<TS("slash", t2)>>>>,
                           TRUE)] : t1 \in Time, t2 \in Time}

\* The filesystems that hold the two files of the bundle.
BundleFilesystems(osFs, filesA, filesB) ==
    {[isOsFs |-> o,
      files |-> [p \in {BundlePath \o FileA, BundlePath \o FileB} |->
                    IF p = BundlePath \o FileA THEN fa ELSE fb]] :
        o \in osFs, fa \in filesA, fb \in filesB}

InitBatch ==
    /\ fs \in BundleFilesystems({TRUE}, BundleFiles, BundleFiles)
    /\ ws \in WorkingSets
    /\ pc = "start"
    /\ binCount = 0
    /\ globalRange = NoRange
    /\ bins = <<>>
    /\ startTime = ZeroTime
    /\ endTime = ZeroTime
    /\ mmapCount = 0
    /\ linearCount = 0
    /\ detect1 = NoDetection
    /\ detect2 = NoDetection
    /\ isLog = FALSE
    /\ bounds = NoBounds
    /\ fileBounds = <<>>
    /\ volumePoints = <<>>
    /\ err = Nil
    /\ panel = NoPanel
    /\ regexFilters = <<>>
    /\ lastUpdated = ZeroTime
    /\ volumeData = <<>>
    /\ analysis = NoAnalysis
    /\ startMode = TRUE
    /\ probeCount = 0
    /\ loopState = NoLoop
    /\ scannedFiles = {}
    /\ maxDepth = defaultMaxDepth
    /\ unixParsed = NoUnixTime
    /\ unixText = <<>>
    /\ parsed = NoTimestamp
    /\ hintPattern = NoPattern
    /\ logLine = <<>>
    /\ mappings = 0
    /\ openFiles = 0
    /\ countResult = NoCount
    /\ mapErr = Nil
    /\ searcher = NoSearcher
    /\ endPos = 0
    /\ startPos = 0

\* fileBounds, err := be.ExtractBoundsFromWorkingSet(ws)
CallExtractBoundsFromWorkingSet ==
    /\ pc = "start"
    /\ \E r \in ExtractBoundsFromWorkingSet(fs, ws) :
          /\ fileBounds' = r.bounds
          /\ err' = r.err
    /\ pc' = "batch"
    /\ UNCHANGED <<fs, ws, binCount, globalRange, bins, startTime, endTime,
                   mmapCount, linearCount, detect1, detect2, isLog, bounds,
                   volumePoints,
                   startPos, endPos, searcher, mapErr, countResult, openFiles,
                   mappings, logLine, hintPattern, parsed, unixText,
                   unixParsed, maxDepth, scannedFiles, loopState,
                   probeCount, startMode, analysis, volumeData, lastUpdated,
                   regexFilters, panel>>

\* The lists of what ExtractBounds can return for each of the files given.
RECURSIVE ExtractBoundsOfEach(_, _, _)
ExtractBoundsOfEach(filesystem, workingSet, files) ==
    IF files = <<>> THEN {<<>>}
    ELSE LET absolutePath == GetAbsolutePath(workingSet, Head(files).Path)
         IN {<<b>> \o r :
               b \in ExtractBounds(absolutePath, filesystem.files[absolutePath]),
               r \in ExtractBoundsOfEach(filesystem, workingSet, Tail(files))}

\* A caller collects be.ExtractBounds(path) of every bundle file, the
\* invalid results included.
CallExtractBoundsOfEachFile ==
    /\ pc = "start"
    /\ ~ws.isNil /\ ws.hasBundle
    /\ \E l \in ExtractBoundsOfEach(fs, ws, ws.Files) : fileBounds' = l
    /\ pc' = "each"
    /\ UNCHANGED <<fs, ws, binCount, globalRange, bins, startTime, endTime,
                   mmapCount, linearCount, detect1, detect2, isLog, bounds,
                   volumePoints, err,
                   startPos, endPos, searcher, mapErr, countResult, openFiles,
                   mappings, logLine, hintPattern, parsed, unixText,
                   unixParsed, maxDepth, scannedFiles, loopState,
                   probeCount, startMode, analysis, volumeData, lastUpdated,
                   regexFilters, panel>>

\* globalRange := be.FindGlobalTimeBounds(fileBounds)
CallFindGlobalTimeBounds ==
    /\ pc \in {"batch", "each"}
    /\ err = Nil
    /\ globalRange' = FindGlobalTimeBounds(fileBounds)
    /\ pc' = "global"
    /\ UNCHANGED <<fs, ws, binCount, bins, startTime, endTime,
                   mmapCount, linearCount, detect1, detect2, isLog, bounds,
                   fileBounds, volumePoints, err,
                   startPos, endPos, searcher, mapErr, countResult, openFiles,
                   mappings, logLine, hintPattern, parsed, unixText,
                   unixParsed, maxDepth, scannedFiles, loopState,
                   probeCount, startMode, analysis, volumeData, lastUpdated,
                   regexFilters, panel>>

NextBatch ==
    \/ CallExtractBoundsFromWorkingSet
    \/ CallExtractBoundsOfEachFile
    \/ CallFindGlobalTimeBounds

SpecBatch == InitBatch /\ [][NextBatch]_vars

\* The entries of a list that are valid.
ValidEntries(boundsList) ==
    {boundsList[i] : i \in {j \in 1..Len(boundsList) : boundsList[j].Valid}}

\* C10: FindGlobalTimeBounds returns nil when no entry is valid, and
\* otherwise the range from the least Earliest to the greatest Latest of
\* the valid entries.
C10_GlobalBoundsAreMinMax ==
    pc = "global" =>
        LET valid == ValidEntries(fileBounds)
        IN IF valid = {} THEN globalRange.isNil
           ELSE /\ ~globalRange.isNil
                /\ \E b \in valid : globalRange.Start = b.Earliest
                /\ \A b \in valid : globalRange.Start <= b.Earliest
                /\ \E b \in valid : globalRange.End = b.Latest
                /\ \A b \in valid : globalRange.End >= b.Latest

\* Of the per-file results res of a working set's bundle files, those of
\* the files that are selected and flagged IsLogFile and whose result has
\* no error and is valid, in bundle order.
KeptEntries(workingSet, res) ==
    LET keep(i) == /\ workingSet.Files[i].Path \in workingSet.SelectedFiles
                   /\ workingSet.Files[i].IsLogFile
                   /\ res[i].err = Nil
                   /\ res[i].Valid
        idx == SelectSeq([i \in 1..Len(res) |-> i], keep)
    IN [k \in 1..Len(idx) |-> res[idx[k]]]

\* C9: with a non-nil bundle, ExtractBoundsFromWorkingSet returns a nil
\* error and, in bundle order, the bounds of exactly the bundle files that
\* are selected, flagged IsLogFile, and whose ExtractBounds returned no
\* error and valid bounds; a file that fails is skipped and later files
\* are still processed.
C9_BatchKeepsExactlyValidSelectedLogs ==
    (pc = "batch" /\ ~ws.isNil /\ ws.hasBundle) =>
        /\ err = Nil
        /\ \E res \in ExtractBoundsOfEach(fs, ws, ws.Files) :
              fileBounds = KeptEntries(ws, res)

\* The first bundle file is selected and flagged and its extraction
\* returns an error, and the bounds of the second file are returned.
C9_Witness ==
    /\ pc = "batch"
    /\ ~ws.isNil /\ ws.hasBundle
    /\ ws.Files[1].IsLogFile /\ FileA \in ws.SelectedFiles
    /\ \A b \in ExtractBounds(BundlePath \o FileA, fs.files[BundlePath \o FileA]) :
          b.err # Nil
    /\ fs.files[BundlePath \o FileA].readable
    /\ err = Nil
    /\ Len(fileBounds) = 1
    /\ fileBounds[1].FilePath = BundlePath \o FileB

-----------------------------------------------------------------------------
(* HistogramBuilder.BuildHistogram and VolumeAnalyzer.GenerateHistogram *)

\* binCount = 20 // Default
defaultBinCount == 20

\* NewMmapFileSearcher succeeds on an OsFs for a file that opens and is
\* not empty; otherwise countBytesInTimeRange falls back to the linear scan.
countBytesInTimeRange(filesystem, filePath, bestPattern, start, end) ==
    LET file == filesystem.files[filePath]
    IN IF filesystem.isOsFs /\ file.readable /\ Len(file.data) # 0
       THEN [count |-> BinarySearchTimeRange(file.data, bestPattern, start, end),
             err |-> Nil]
       ELSE countBytesInTimeRangeLinear(file, bestPattern, start, end)

VolumePoint(binStart, binEnd, count, size, fileCount) ==
    [BinStart |-> binStart, BinEnd |-> binEnd, Count |-> count,
     Size |-> size, FileCount |-> fileCount]

\* A point that counts every file searched, whatever its byte count.
addCount_CountsEveryFile(point, counted) ==
    IF counted.err # Nil THEN point
    ELSE [point EXCEPT !.Size = @ + counted.count, !.FileCount = @ + 1]

\* A point after a file's bytes in its bin have been counted.
addCount(point, counted) ==
    IF counted.err # Nil THEN point
    ELSE IF counted.count > 0
    THEN [point EXCEPT !.Size = @ + counted.count, !.FileCount = @ + 1]
    ELSE point

\* The inner loop of BuildHistogram: the point of a bin after the files
\* left have been searched.
RECURSIVE populateBin(_, _, _, _)
populateBin(filesystem, bin, boundsLeft, point) ==
    IF boundsLeft = <<>> THEN point
    ELSE populateBin(
           filesystem, bin, Tail(boundsLeft),
           IF ~Head(boundsLeft).Valid THEN point
           ELSE IF \/ Head(boundsLeft).Latest < bin.Start
                   \/ Head(boundsLeft).Earliest > bin.End
           THEN point
           ELSE addCount(point,
                         countBytesInTimeRange(filesystem,
                                               Head(boundsLeft).FilePath,
                                               Head(boundsLeft).BestPattern,
                                               bin.Start, bin.End)))

\* What a histogram call returns, with the bounds and range it worked on.
HistogramResult(points, error, boundsList, range) ==
    [volumePoints |-> points, err |-> error, fileBounds |-> boundsList,
     globalRange |-> range]

\* A BuildHistogram that returns no points and no error when no bounds
\* were extracted.
BuildHistogramWith_NoError(filesystem, extracted, count) ==
    LET n == IF count <= 0 THEN defaultBinCount ELSE count
        range == FindGlobalTimeBounds(extracted.bounds)
        timeBins == createTimeBins(range, n)
    IN IF extracted.err # Nil \/ Len(extracted.bounds) = 0 \/ range.isNil
       THEN HistogramResult(<<>>, Nil, extracted.bounds, NoRange)
       ELSE HistogramResult(
                [i \in 1..Len(timeBins) |->
                    populateBin(filesystem, timeBins[i], extracted.bounds,
                                VolumePoint(timeBins[i].Start, timeBins[i].End,
                                            0, 0, 0))],
                Nil, extracted.bounds, range)

\* BuildHistogram, given the result of its ExtractBoundsFromWorkingSet call.
BuildHistogramWith(filesystem, extracted, count) ==
    LET n == IF count <= 0 THEN defaultBinCount ELSE count
        range == FindGlobalTimeBounds(extracted.bounds)
        timeBins == createTimeBins(range, n)
    IN IF extracted.err # Nil
       THEN HistogramResult(<<>>, "failed to extract file bounds", <<>>, NoRange)
       ELSE IF Len(extracted.bounds) = 0
       THEN HistogramResult(<<>>, "no valid timestamps found in selected files",
                            extracted.bounds, NoRange)
       ELSE IF range.isNil
       THEN HistogramResult(<<>>, "failed to determine global time range",
                            extracted.bounds, NoRange)
       ELSE HistogramResult(
                [i \in 1..Len(timeBins) |->
                    populateBin(filesystem, timeBins[i], extracted.bounds,
                                VolumePoint(timeBins[i].Start, timeBins[i].End,
                                            0, 0, 0))],
                Nil, extracted.bounds, range)

\* The results BuildHistogram can return.
BuildHistogram(filesystem, workingSet, count) ==
    {BuildHistogramWith(filesystem, extracted, count) :
        extracted \in ExtractBoundsFromWorkingSet(filesystem, workingSet)}

\* The results GenerateHistogram can return.
GenerateHistogram(filesystem, workingSet, count) ==
    IF workingSet.isNil
    THEN {HistogramResult(<<>>, "working set cannot be nil", <<>>, NoRange)}
    ELSE BuildHistogram(filesystem, workingSet,
                        IF count <= 0 THEN defaultBinCount ELSE count)

-----------------------------------------------------------------------------
(* Specification of histogram generation *)

\* The working sets whose first bundle file is flagged IsLogFile, the nil
\* working set and the one without a bundle.
HistogramWorkingSets ==
    {w \in WorkingSets : w.hasBundle => w.Files[1].IsLogFile}

\* The second file of a histogram's bundle: unreadable, plain text, the
\* last instant, the first and the last instant, or the first instant and
\* one after a gap wider than a bin.
SecondFiles ==
    {NoFile} \cup
    {[readable |-> TRUE, data |-> FileOfLines(lines, TRUE)] :
        lines \in {<<<<TX>>>>, <<<<TS("slash", MaxTime)>>>>,
                   <<<<TS("slash", 1), TX>>, <<TS("slash", MaxTime)>>>>,
                   <<<<TS("slash", 1)>>, <<TS("slash", MaxTime + 1)>>>>}}

InitHist ==
    /\ fs \in BundleFilesystems(BOOLEAN, BundleFiles, SecondFiles)
    /\ ws \in HistogramWorkingSets
    /\ pc = "start"
    /\ binCount \in 0..MaxBins
    /\ globalRange = NoRange
    /\ bins = <<>>
    /\ startTime = ZeroTime
    /\ endTime = ZeroTime
    /\ mmapCount = 0
    /\ linearCount = 0
    /\ detect1 = NoDetection
    /\ detect2 = NoDetection
    /\ isLog = FALSE
    /\ bounds = NoBounds
    /\ fileBounds = <<>>
    /\ volumePoints = <<>>
    /\ err = Nil
    /\ panel = NoPanel
    /\ regexFilters = <<>>
    /\ lastUpdated = ZeroTime
    /\ volumeData = <<>>
    /\ analysis = NoAnalysis
    /\ startMode = TRUE
    /\ probeCount = 0
    /\ loopState = NoLoop
    /\ scannedFiles = {}
    /\ maxDepth = defaultMaxDepth
    /\ unixParsed = NoUnixTime
    /\ unixText = <<>>
    /\ parsed = NoTimestamp
    /\ hintPattern = NoPattern
    /\ logLine = <<>>
    /\ mappings = 0
    /\ openFiles = 0
    /\ countResult = NoCount
    /\ mapErr = Nil
    /\ searcher = NoSearcher
    /\ endPos = 0
    /\ startPos = 0

\* volumePoints, err := va.GenerateHistogram(ws, binCount); the bounds and
\* the global range the call worked on are recorded with its results.
CallGenerateHistogram ==
    /\ pc = "start"
    /\ \E r \in GenerateHistogram(fs, ws, binCount) :
          /\ volumePoints' = r.volumePoints
          /\ err' = r.err
          /\ fileBounds' = r.fileBounds
          /\ globalRange' = r.globalRange
    /\ pc' = "histogram"
    /\ UNCHANGED <<fs, ws, binCount, bins, startTime, endTime, mmapCount,
                   linearCount, detect1, detect2, isLog, bounds,
                   startPos, endPos, searcher, mapErr, countResult, openFiles,
                   mappings, logLine, hintPattern, parsed, unixText,
                   unixParsed, maxDepth, scannedFiles, loopState,
                   probeCount, startMode, analysis, volumeData, lastUpdated,
                   regexFilters, panel>>

NextHist == CallGenerateHistogram

SpecHist == InitHist /\ [][NextHist]_vars

\* C7: when a selected log file has valid bounds, GenerateHistogram
\* returns as many points as bins asked for (20 when none is asked for),
\* in time order, each ending where the next starts, from the global
\* earliest timestamp to the global latest timestamp.
C7_HistogramSpansGlobalRange ==
    (pc = "histogram" /\ fileBounds # <<>>) =>
        LET n == IF binCount <= 0 THEN 20 ELSE binCount
            valid == ValidEntries(fileBounds)
        IN /\ err = Nil
           /\ Len(volumePoints) = n
           /\ \E b \in valid : volumePoints[1].BinStart = b.Earliest
           /\ \A b \in valid : volumePoints[1].BinStart <= b.Earliest
           /\ \E b \in valid : volumePoints[n].BinEnd = b.Latest
           /\ \A b \in valid : volumePoints[n].BinEnd >= b.Latest
           /\ \A i \in 1..n : volumePoints[i].BinStart <= volumePoints[i].BinEnd
           /\ \A i \in 1..(n - 1) :
                 volumePoints[i].BinEnd = volumePoints[i + 1].BinStart

-----------------------------------------------------------------------------
(* Specification of the searches of a mapped file of any content *)

\* Lines with a timestamp and lines of plain text.
MmapLines == {<<TS("slash", t)>> : t \in Time} \cup {<<TX>>}

\* Non-empty files of up to MaxFileLines lines in any order, each ended by
\* "\n", the last line possibly unterminated.
MmapFiles ==
    {f \in {[readable |-> TRUE, data |-> FileOfLines(lines, nl)] :
               lines \in SeqsUpTo(MmapLines, MaxFileLines), nl \in BOOLEAN} :
        f.data # <<>>}

InitMmap ==
    /\ fs \in {OneFileFs(f) : f \in MmapFiles}
    /\ detect1 \in DetectBestPattern(fs.files[ThePath])
    /\ startTime \in Time
    /\ endTime \in Time
    /\ pc = "start"
    /\ ws = NoWorkingSet
    /\ binCount = 0
    /\ globalRange = NoRange
    /\ bins = <<>>
    /\ mmapCount = 0
    /\ linearCount = 0
    /\ detect2 = NoDetection
    /\ isLog = FALSE
    /\ bounds = NoBounds
    /\ fileBounds = <<>>
    /\ volumePoints = <<>>
    /\ err = Nil
    /\ panel = NoPanel
    /\ regexFilters = <<>>
    /\ lastUpdated = ZeroTime
    /\ volumeData = <<>>
    /\ analysis = NoAnalysis
    /\ startMode = TRUE
    /\ probeCount = 0
    /\ loopState = NoLoop
    /\ scannedFiles = {}
    /\ maxDepth = defaultMaxDepth
    /\ unixParsed = NoUnixTime
    /\ unixText = <<>>
    /\ parsed = NoTimestamp
    /\ hintPattern = NoPattern
    /\ logLine = <<>>
    /\ mappings = 0
    /\ openFiles = 0
    /\ countResult = NoCount
    /\ mapErr = Nil
    /\ searcher = NoSearcher
    /\ startPos = 0
    /\ endPos = 0

NextMmap == CallBinarySearchTimeRange

SpecMmap == InitMmap /\ [][NextMmap]_vars

\* C11: on any mapped file, BinarySearchTimeRange with start after end
\* returns 0.
C11_InvertedRangeCountsNothing ==
    (pc = "searched" /\ startTime > endTime) => mmapCount = 0

\* A file whose lines are out of order has been searched with an inverted
\* range that lies within its timestamps.
C11_Witness ==
    /\ pc = "searched"
    /\ startTime > endTime
    /\ ~TimestampsNonDecreasing
    /\ \E i \in 1..Len(fs.files[ThePath].data) :
          /\ fs.files[ThePath].data[i].c = "ts"
          /\ fs.files[ThePath].data[i].t \in endTime..startTime

\* The offsets at which the lines of the mapped file start.
LineStarts(data) ==
    {p \in 0..(Len(data) - 1) : p = 0 \/ At(data, p - 1) = NL}

\* The start of the first line whose timestamp is at or after the target
\* (after it, in end mode); the size of the file when there is none.
FirstLineFrom(data, bestPattern, targetTime, searchStart) ==
    LET found == {p \in LineStarts(data) :
                    LET timestamp == parseTimestampAt(data, bestPattern, p)
                    IN /\ timestamp.ok
                       /\ IF searchStart THEN timestamp.t >= targetTime
                                         ELSE timestamp.t > targetTime}
    IN IF found = {} THEN Len(data)
       ELSE CHOOSE p \in found : \A q \in found : p <= q

\* C20: on a file whose timestamps never decrease, with lines without a
\* timestamp anywhere, binarySearchTime returns the start of the first
\* line at or after the target in start mode and of the first line after
\* the target in end mode, and the file size when there is no such line.
C20_SearchFindsFirstLine ==
    (pc = "searched" /\ TimestampsNonDecreasing) =>
        /\ startPos = FirstLineFrom(fs.files[ThePath].data, detect1.BestPattern,
                                    startTime, TRUE)
        /\ endPos = FirstLineFrom(fs.files[ThePath].data, detect1.BestPattern,
                                  endTime, FALSE)

\* A search of a sorted file that found, below a line without a timestamp,
\* the line the range starts at, and further on the line it ends before.
C20_Witness ==
    /\ pc = "searched"
    /\ TimestampsNonDecreasing
    /\ startPos \in LineStarts(fs.files[ThePath].data)
    /\ endPos \in LineStarts(fs.files[ThePath].data)
    /\ 0 < startPos
    /\ startPos < endPos
    /\ \E p \in LineStarts(fs.files[ThePath].data) :
          /\ p < startPos
          /\ ~parseTimestampAt(fs.files[ThePath].data, detect1.BestPattern, p).ok

\* Whether a line belongs to the span of start..end: by its own timestamp
\* when it has one, else as the last line before it that has one.
inSpan(timestamp, start, end, closed, inRange) ==
    IF ~timestamp.ok THEN inRange
    ELSE /\ timestamp.t >= start
         /\ IF closed THEN timestamp.t <= end ELSE timestamp.t < end

\* The bytes of a line between its start and the start of the next one.
spanLine(counted, pos, next) == IF counted THEN next - pos ELSE 0

RECURSIVE spanBytesFrom(_, _, _, _, _, _, _)
spanBytesAfter(data, bestPattern, start, end, closed, pos, next, counted) ==
    spanLine(counted, pos, next)
        + spanBytesFrom(data, bestPattern, start, end, closed, next, counted)

\* The bytes of the lines from pos on whose timestamps fall between start
\* and end, end included when closed, each followed by its lines without a
\* timestamp.
spanBytesFrom(data, bestPattern, start, end, closed, pos, inRange) ==
    IF pos >= Len(data) THEN 0
    ELSE spanBytesAfter(data, bestPattern, start, end, closed, pos,
                        Min(findLineEnd(data, pos) + 1, Len(data)),
                        inSpan(parseTimestampAt(data, bestPattern, pos),
                               start, end, closed, inRange))

\* C12 (as the code has it): on a file whose timestamps never decrease,
\* BinarySearchTimeRange returns the bytes of the lines whose timestamps
\* fall in the closed interval from start to end: a line whose timestamp
\* equals end is counted.
C12_EndIsInclusive ==
    (pc = "searched" /\ TimestampsNonDecreasing) =>
        mmapCount = spanBytesFrom(fs.files[ThePath].data, detect1.BestPattern,
                                  startTime, endTime, TRUE, 0, FALSE)

\* A search of a sorted file that holds a line inside the range and a line
\* at its end.
C12_Witness ==
    /\ pc = "searched"
    /\ TimestampsNonDecreasing
    /\ startTime < endTime
    /\ \E p, q \in LineStarts(fs.files[ThePath].data) :
          /\ parseTimestampAt(fs.files[ThePath].data, detect1.BestPattern, p).ok
          /\ parseTimestampAt(fs.files[ThePath].data, detect1.BestPattern, p).t
                = startTime
          /\ parseTimestampAt(fs.files[ThePath].data, detect1.BestPattern, q).ok
          /\ parseTimestampAt(fs.files[ThePath].data, detect1.BestPattern, q).t
                = endTime

\* C12 (as stated): on a file whose timestamps never decrease,
\* BinarySearchTimeRange returns the bytes of the lines whose timestamps
\* fall in the half-open interval from start to end: a line whose
\* timestamp equals end contributes no bytes.
C12_EndIsExclusive ==
    (pc = "searched" /\ TimestampsNonDecreasing) =>
        mmapCount = spanBytesFrom(fs.files[ThePath].data, detect1.BestPattern,
                                  startTime, endTime, FALSE, 0, FALSE)

-----------------------------------------------------------------------------
(* Specification of HistogramBuilder.countBytesInTimeRange, step by step *)

\* The system calls of mapFile that can fail on a file that opens.
Faults == {"none", "stat", "mmap"}

\* NewMmapFileSearcher's error for an error of mapFile.
MapError(e) ==
    CASE e = "mmap requires OsFs" -> "failed to map file: mmap requires OsFs"
      [] e = OpenError -> "failed to map file: failed to open file"
      [] e = "failed to stat file" -> "failed to map file: failed to stat file"
      [] e = "file is empty" -> "failed to map file: file is empty"
      [] e = "failed to mmap file" -> "failed to map file: failed to mmap file"
      [] OTHER -> Nil

MapErrors ==
    {MapError(e) : e \in {"mmap requires OsFs", OpenError, "failed to stat file",
                          "file is empty", "failed to mmap file"}}

\* What a mapFile leaves behind: its error, whether the file is still open
\* and whether the data is mapped.
MapResult(e, file, mapped, data) ==
    [err |-> e, file |-> file, mapped |-> mapped, data |-> data]

\* A mapFile that returns "file is empty" without closing the file.
mapFile_LeakOnEmpty(filesystem, filePath, fault) ==
    IF ~filesystem.isOsFs
    THEN MapResult("mmap requires OsFs", FALSE, FALSE, <<>>)
    ELSE IF ~filesystem.files[filePath].readable
    THEN MapResult(OpenError, FALSE, FALSE, <<>>)
    ELSE IF fault = "stat"
    THEN MapResult("failed to stat file", FALSE, FALSE, <<>>)
    ELSE IF Len(filesystem.files[filePath].data) = 0
    THEN MapResult("file is empty", TRUE, FALSE, <<>>)
    ELSE IF fault = "mmap"
    THEN MapResult("failed to mmap file", FALSE, FALSE, <<>>)
    ELSE MapResult(Nil, TRUE, TRUE, filesystem.files[filePath].data)

\* mapFile: every return with an error comes after file.Close(), if the
\* file was opened.
mapFile(filesystem, filePath, fault) ==
    IF ~filesystem.isOsFs
    THEN MapResult("mmap requires OsFs", FALSE, FALSE, <<>>)
    ELSE IF ~filesystem.files[filePath].readable
    THEN MapResult(OpenError, FALSE, FALSE, <<>>)
    ELSE IF fault = "stat"
    THEN MapResult("failed to stat file", FALSE, FALSE, <<>>)
    ELSE IF Len(filesystem.files[filePath].data) = 0
    THEN MapResult("file is empty", FALSE, FALSE, <<>>)
    ELSE IF fault = "mmap"
    THEN MapResult("failed to mmap file", FALSE, FALSE, <<>>)
    ELSE MapResult(Nil, TRUE, TRUE, filesystem.files[filePath].data)

\* The number of resources a flag stands for.
Held(flag) == IF flag THEN 1 ELSE 0

\* A fallback that returns the error of the mapping.
countAfterMapError_ReturnsIt(mapError, linear) ==
    [count |-> 0, err |-> mapError]

\* return hb.countBytesInTimeRangeLinear(...): what countBytesInTimeRange
\* returns after NewMmapFileSearcher failed with mapError.
countAfterMapError(mapError, linear) == linear

\* Lines with a timestamp and lines of plain text.
CountLines == {<<TS("slash", t)>> : t \in Time} \cup {<<TX>>}

\* An unreadable file, an empty file and the files of up to MaxCountLines
\* lines.
CountFiles ==
    {NoFile} \cup
    {[readable |-> TRUE, data |-> FileOfLines(lines, TRUE)] :
        lines \in SeqsUpTo(CountLines, MaxCountLines)}

InitCount ==
    /\ fs \in {[isOsFs |-> osFs, files |-> [p \in {ThePath} |-> f]] :
                  osFs \in BOOLEAN, f \in CountFiles}
    /\ detect1 \in DetectBestPattern(fs.files[ThePath])
    /\ startTime \in Time
    /\ endTime \in Time
    /\ pc = "start"
    /\ ws = NoWorkingSet
    /\ binCount = 0
    /\ globalRange = NoRange
    /\ bins = <<>>
    /\ mmapCount = 0
    /\ linearCount = 0
    /\ detect2 = NoDetection
    /\ isLog = FALSE
    /\ bounds = NoBounds
    /\ fileBounds = <<>>
    /\ volumePoints = <<>>
    /\ err = Nil
    /\ panel = NoPanel
    /\ regexFilters = <<>>
    /\ lastUpdated = ZeroTime
    /\ volumeData = <<>>
    /\ analysis = NoAnalysis
    /\ startMode = TRUE
    /\ probeCount = 0
    /\ loopState = NoLoop
    /\ scannedFiles = {}
    /\ maxDepth = defaultMaxDepth
    /\ unixParsed = NoUnixTime
    /\ unixText = <<>>
    /\ parsed = NoTimestamp
    /\ hintPattern = NoPattern
    /\ logLine = <<>>
    /\ startPos = 0
    /\ endPos = 0
    /\ searcher = NoSearcher
    /\ mapErr = Nil
    /\ countResult = NoCount
    /\ openFiles = 0
    /\ mappings = 0

\* NewMmapFileSearcher: the searcher of the file if mapFile succeeds, nil
\* and the error otherwise.
CallNewMmapFileSearcher ==
    /\ pc = "start"
    /\ \E fault \in Faults :
          LET mapped == mapFile(fs, ThePath, fault)
          IN /\ searcher' = IF mapped.err = Nil
                            THEN [file |-> mapped.file, mapped |-> mapped.mapped,
                                  data |-> mapped.data]
                            ELSE NoSearcher
             /\ mapErr' = MapError(mapped.err)
             /\ openFiles' = openFiles + Held(mapped.file)
             /\ mappings' = mappings + Held(mapped.mapped)
             /\ pc' = IF mapped.err = Nil THEN "mapped" ELSE "fallback"
    /\ UNCHANGED <<fs, ws, binCount, globalRange, bins, startTime, endTime,
                   mmapCount, linearCount, detect1, detect2, isLog, bounds,
                   fileBounds, volumePoints, err, startPos, endPos,
                   countResult, logLine, hintPattern, parsed, unixText,
                   unixParsed, maxDepth, scannedFiles, loopState,
                   probeCount, startMode, analysis, volumeData, lastUpdated,
                   regexFilters, panel>>

\* byteCount := searcher.BinarySearchTimeRange(startTime, endTime)
SearchMappedFile ==
    /\ pc = "mapped"
    /\ countResult' = [count |-> BinarySearchTimeRange(searcher.data,
                                     detect1.BestPattern, startTime, endTime),
                       err |-> Nil]
    /\ pc' = "closing"
    /\ UNCHANGED <<fs, ws, binCount, globalRange, bins, startTime, endTime,
                   mmapCount, linearCount, detect1, detect2, isLog, bounds,
                   fileBounds, volumePoints, err, startPos, endPos,
                   searcher, mapErr, openFiles, mappings, logLine, hintPattern,
                   parsed, unixText, unixParsed, maxDepth, scannedFiles,
                   loopState, probeCount, startMode, analysis, volumeData,
                   lastUpdated, regexFilters, panel>>

\* defer searcher.Close(): the data is unmapped and the file closed.
DeferredClose ==
    /\ pc = "closing"
    /\ mappings' = mappings - Held(searcher.mapped)
    /\ openFiles' = openFiles - Held(searcher.file)
    /\ searcher' = NoSearcher
    /\ pc' = "returned"
    /\ UNCHANGED <<fs, ws, binCount, globalRange, bins, startTime, endTime,
                   mmapCount, linearCount, detect1, detect2, isLog, bounds,
                   fileBounds, volumePoints, err, startPos, endPos,
                   mapErr, countResult, logLine, hintPattern, parsed,
                   unixText, unixParsed, maxDepth, scannedFiles, loopState,
                   probeCount, startMode, analysis, volumeData, lastUpdated,
                   regexFilters, panel>>

\* The fallback, countBytesInTimeRangeLinear, opens the file.
FallBackOpen ==
    /\ pc = "fallback"
    /\ IF fs.files[ThePath].readable
       THEN /\ openFiles' = openFiles + 1
            /\ pc' = "scanning"
            /\ UNCHANGED countResult
       ELSE /\ countResult' =
                   countAfterMapError(mapErr,
                       countBytesInTimeRangeLinear(fs.files[ThePath],
                           detect1.BestPattern, startTime, endTime))
            /\ pc' = "returned"
            /\ UNCHANGED openFiles
    /\ UNCHANGED <<fs, ws, binCount, globalRange, bins, startTime, endTime,
                   mmapCount, linearCount, detect1, detect2, isLog, bounds,
                   fileBounds, volumePoints, err, startPos, endPos,
                   searcher, mapErr, mappings, logLine, hintPattern, parsed,
                   unixText, unixParsed, maxDepth, scannedFiles, loopState,
                   probeCount, startMode, analysis, volumeData, lastUpdated,
                   regexFilters, panel>>

\* The fallback scans the file, and its deferred file.Close() runs.
FallBackScan ==
    /\ pc = "scanning"
    /\ countResult' =
           countAfterMapError(mapErr,
               countBytesInTimeRangeLinear(fs.files[ThePath],
                   detect1.BestPattern, startTime, endTime))
    /\ openFiles' = openFiles - 1
    /\ pc' = "returned"
    /\ UNCHANGED <<fs, ws, binCount, globalRange, bins, startTime, endTime,
                   mmapCount, linearCount, detect1, detect2, isLog, bounds,
                   fileBounds, volumePoints, err, startPos, endPos,
                   searcher, mapErr, mappings, logLine, hintPattern, parsed,
                   unixText, unixParsed, maxDepth, scannedFiles, loopState,
                   probeCount, startMode, analysis, volumeData, lastUpdated,
                   regexFilters, panel>>

NextCount ==
    \/ CallNewMmapFileSearcher
    \/ SearchMappedFile
    \/ DeferredClose
    \/ FallBackOpen
    \/ FallBackScan

SpecCount == InitCount /\ [][NextCount]_vars

\* C13: whenever NewMmapFileSearcher fails, countBytesInTimeRange returns
\* exactly what countBytesInTimeRangeLinear returns for the same file,
\* pattern and range, and never the error of the mapping.
C13_FallbackReturnsLinearResult ==
    (pc = "returned" /\ mapErr # Nil) =>
        /\ countResult = countBytesInTimeRangeLinear(fs.files[ThePath],
                             detect1.BestPattern, startTime, endTime)
        /\ countResult.err \notin MapErrors

\* A count of the bytes of a file whose mmap failed.
C13_Witness ==
    /\ pc = "returned"
    /\ mapErr = MapError("failed to mmap file")
    /\ countResult.err = Nil
    /\ countResult.count > 0

\* C14: nothing stays open after NewMmapFileSearcher returned an error,
\* and no file and no mapping is held once countBytesInTimeRange has
\* returned.
C14_NothingOutlivesTheCall ==
    /\ (pc = "fallback" => (openFiles = 0 /\ mappings = 0))
    /\ (pc = "returned" => (openFiles = 0 /\ mappings = 0))

\* A count by binary search has returned: the file was mapped, searched
\* and released.
C14_Witness ==
    /\ pc = "returned"
    /\ mapErr = Nil
    /\ countResult.count > 0
    /\ searcher = NoSearcher

-----------------------------------------------------------------------------
(* Claims about the histogram *)

\* No selected bundle file flagged IsLogFile has an extraction that gives
\* valid bounds.
NoSelectedLogFileHasBounds(filesystem, workingSet) ==
    \A i \in 1..Len(workingSet.Files) :
        (/\ workingSet.Files[i].Path \in workingSet.SelectedFiles
         /\ workingSet.Files[i].IsLogFile)
        => \A b \in ExtractBounds(
                        GetAbsolutePath(workingSet, workingSet.Files[i].Path),
                        filesystem.files[GetAbsolutePath(workingSet,
                                             workingSet.Files[i].Path)]) :
              b.err # Nil \/ ~b.Valid

\* C15: GenerateHistogram returns an error and no VolumePoints when the
\* working set is nil, when its bundle is nil, and when no selected log
\* file yields valid bounds.
C15_NoBoundsGiveAnError ==
    (/\ pc = "histogram"
     /\ \/ ws.isNil
        \/ ~ws.hasBundle
        \/ NoSelectedLogFileHasBounds(fs, ws)
        \/ fileBounds = <<>>)
    => (err # Nil /\ volumePoints = <<>>)

\* A histogram was asked of a bundle whose only selected log file is
\* readable and holds no timestamp that parses.
C15_Witness ==
    /\ pc = "histogram"
    /\ ~ws.isNil /\ ws.hasBundle
    /\ ws.SelectedFiles = {FileA}
    /\ fs.files[BundlePath \o FileA].readable
    /\ NoSelectedLogFileHasBounds(fs, ws)
    /\ err = "no valid timestamps found in selected files"

\* The bytes of a count, none when it failed.
countOrZero(counted) == IF counted.err # Nil THEN 0 ELSE counted.count

\* What the file of an entry contributes to the bin of a point: the bytes
\* countBytesInTimeRange returns for it, none for an entry that is not
\* valid, lies outside the bin, or whose count fails.
contribution(filesystem, point, bound) ==
    IF \/ ~bound.Valid
       \/ bound.Latest < point.BinStart
       \/ bound.Earliest > point.BinEnd
    THEN 0
    ELSE countOrZero(countBytesInTimeRange(filesystem, bound.FilePath,
                                           bound.BestPattern, point.BinStart,
                                           point.BinEnd))

RECURSIVE sumOfContributions(_, _, _)
sumOfContributions(filesystem, point, boundsLeft) ==
    IF boundsLeft = <<>> THEN 0
    ELSE contribution(filesystem, point, Head(boundsLeft))
         + sumOfContributions(filesystem, point, Tail(boundsLeft))

\* C18: in every VolumePoint of a histogram, FileCount is the number of
\* files that contributed more than 0 bytes to the bin and Size is the sum
\* of the contributions, so that Size > 0 exactly when FileCount > 0.
C18_SizeAndFileCountAgree ==
    (pc = "histogram" /\ err = Nil) =>
        \A i \in 1..Len(volumePoints) :
            /\ volumePoints[i].FileCount =
                   Cardinality({j \in 1..Len(fileBounds) :
                       contribution(fs, volumePoints[i], fileBounds[j]) > 0})
            /\ volumePoints[i].Size =
                   sumOfContributions(fs, volumePoints[i], fileBounds)
            /\ (volumePoints[i].Size > 0) <=> (volumePoints[i].FileCount > 0)

\* A histogram with a bin that two files contribute to and a bin that a
\* file was searched for and gave no bytes.
C18_Witness ==
    /\ pc = "histogram"
    /\ err = Nil
    /\ \E i \in 1..Len(volumePoints) :
          volumePoints[i].FileCount = 2 /\ volumePoints[i].Size > 0
    /\ \E i \in 1..Len(volumePoints) :
          /\ volumePoints[i].FileCount = 0
          /\ volumePoints[i].Size = 0
          /\ \E j \in 1..Len(fileBounds) :
                /\ fileBounds[j].Latest >= volumePoints[i].BinStart
                /\ fileBounds[j].Earliest <= volumePoints[i].BinEnd

-----------------------------------------------------------------------------
(* Specification of TimestampExtractor.ParseTimestamp *)

\* The bytes of a line: text, a blank, and timestamp texts of every class.
LineBytes == {TX, SP} \cup {TS(k, t) : k \in TextClasses, t \in Time}

\* The lines of up to MaxLineBytes bytes.
ParseLines == SeqsUpTo(LineBytes, MaxLineBytes)

InitParse ==
    /\ logLine \in ParseLines
    /\ hintPattern \in Patterns \cup {NoPattern}
    /\ parsed = NoTimestamp
    /\ pc = "start"
    /\ fs = OneFileFs(NoFile)
    /\ ws = NoWorkingSet
    /\ binCount = 0
    /\ globalRange = NoRange
    /\ bins = <<>>
    /\ startTime = ZeroTime
    /\ endTime = ZeroTime
    /\ mmapCount = 0
    /\ linearCount = 0
    /\ detect1 = NoDetection
    /\ detect2 = NoDetection
    /\ isLog = FALSE
    /\ bounds = NoBounds
    /\ fileBounds = <<>>
    /\ volumePoints = <<>>
    /\ err = Nil
    /\ panel = NoPanel
    /\ regexFilters = <<>>
    /\ lastUpdated = ZeroTime
    /\ volumeData = <<>>
    /\ analysis = NoAnalysis
    /\ startMode = TRUE
    /\ probeCount = 0
    /\ loopState = NoLoop
    /\ scannedFiles = {}
    /\ maxDepth = defaultMaxDepth
    /\ unixParsed = NoUnixTime
    /\ unixText = <<>>
    /\ startPos = 0
    /\ endPos = 0
    /\ searcher = NoSearcher
    /\ mapErr = Nil
    /\ countResult = NoCount
    /\ openFiles = 0
    /\ mappings = 0

\* timestamp, err := te.ParseTimestamp(line, bestPattern)
CallParseTimestamp ==
    /\ pc = "start"
    /\ parsed' = ParseTimestamp(logLine, hintPattern)
    /\ pc' = "parsed"
    /\ UNCHANGED <<fs, ws, binCount, globalRange, bins, startTime, endTime,
                   mmapCount, linearCount, detect1, detect2, isLog, bounds,
                   fileBounds, volumePoints, err, startPos, endPos,
                   searcher, mapErr, countResult, openFiles, mappings,
                   logLine, hintPattern, unixText, unixParsed, maxDepth,
                   scannedFiles, loopState, probeCount, startMode, analysis,
                   volumeData, lastUpdated, regexFilters, panel>>

NextParse == CallParseTimestamp

SpecParse == InitParse /\ [][NextParse]_vars

\* The patterns of the library that parse a line.
ParsingPatterns(line) ==
    {p \in Patterns : parseTimestampWithPattern(line, p).ok}

\* C17: ParseTimestamp returns the timestamp the best pattern parses when
\* it parses the line; otherwise that of the first pattern in library
\* order that parses it; it fails exactly when no pattern parses the line.
C17_BestFirstThenLibraryOrder ==
    pc = "parsed" =>
        /\ parsed.ok <=> ParsingPatterns(logLine) # {}
        /\ IF hintPattern # NoPattern /\ hintPattern \in ParsingPatterns(logLine)
           THEN parsed = parseTimestampWithPattern(logLine, hintPattern)
           ELSE \A p \in ParsingPatterns(logLine) :
                   (\A q \in ParsingPatterns(logLine) : p <= q)
                       => parsed = parseTimestampWithPattern(logLine, p)

\* The best pattern parsed a timestamp other than the one the first
\* pattern in order parses.
C17_Witness ==
    /\ pc = "parsed"
    /\ hintPattern # NoPattern
    /\ hintPattern \in ParsingPatterns(logLine)
    /\ \E p \in ParsingPatterns(logLine) :
          /\ p < hintPattern
          /\ parseTimestampWithPattern(logLine, p) # parsed

-----------------------------------------------------------------------------
(* parseTimestampWithPattern for the "unix" layout of the Audit pattern *)

(* The digits of the audit text msg=audit(<digits>:<serial>) are a         *)
(* sequence of decimal digits.  Integers of 19 digits are beyond the       *)
(* model checker's, so the int64 arithmetic of the code is done on the     *)
(* digits: dividing by 10^k drops the last k digits, the remainder is the  *)
(* last k digits, and multiplying by 10^k appends k zeros.  An instant     *)
(* time.Unix(sec, nsec) is the pair of the 10 digits of sec and the 9      *)
(* digits of nsec.                                                         *)

\* (\d{10,19})
minUnixDigits == 10
maxUnixDigits == 19

\* math.MaxInt64 = 9223372036854775807
MaxInt64Digits == <<9, 2, 2, 3, 3, 7, 2, 0, 3, 6, 8, 5, 4, 7, 7, 5, 8, 0, 7>>

Zeros(n) == [i \in 1..n |-> 0]

\* a <= b for numbers of the same number of digits.
RECURSIVE DigitsLeq(_, _)
DigitsLeq(a, b) ==
    IF a = <<>> THEN TRUE
    ELSE IF Head(a) # Head(b) THEN Head(a) < Head(b)
    ELSE DigitsLeq(Tail(a), Tail(b))

\* The Audit regex matches, and captures the digits, when there are 10 to
\* 19 of them between "msg=audit(" and ":".
auditRegexMatches(timestampStr) ==
    Len(timestampStr) >= minUnixDigits /\ Len(timestampStr) <= maxUnixDigits

\* strconv.ParseInt(timestampStr, 10, 64) returns no error.
ParseIntFits(timestampStr) ==
    \/ Len(timestampStr) < Len(MaxInt64Digits)
    \/ /\ Len(timestampStr) = Len(MaxInt64Digits)
       /\ DigitsLeq(timestampStr, MaxInt64Digits)

\* unixTime / 10^k and unixTime % 10^k
DivPow10(d, k) == SubSeq(d, 1, Len(d) - k)
ModPow10(d, k) == SubSeq(d, Len(d) - k + 1, Len(d))

\* time.Unix(unixTime / 10^k, (unixTime % 10^k) * 10^(9-k))
unixTimeOf(d, k) ==
    [ok |-> TRUE, sec |-> DivPow10(d, k), nsec |-> ModPow10(d, k) \o Zeros(9 - k)]

\* A decoding that takes 13 digits for seconds.
parseUnix_MillisAsSeconds(timestampStr) ==
    IF ~auditRegexMatches(timestampStr) THEN NoUnixTime
    ELSE IF ~ParseIntFits(timestampStr) THEN NoUnixTime
    ELSE CASE Len(timestampStr) = 10 -> unixTimeOf(timestampStr, 0)
           [] Len(timestampStr) = 13 -> unixTimeOf(timestampStr, 0)
           [] Len(timestampStr) = 16 -> unixTimeOf(timestampStr, 6)
           [] Len(timestampStr) = 19 -> unixTimeOf(timestampStr, 9)
           [] OTHER -> NoUnixTime

\* parseTimestampWithPattern, case "unix": no match, or a group ParseInt
\* rejects, or one whose length is none of 10, 13, 16 and 19, fails.
parseUnix(timestampStr) ==
    IF ~auditRegexMatches(timestampStr) THEN NoUnixTime
    ELSE IF ~ParseIntFits(timestampStr) THEN NoUnixTime
    ELSE CASE Len(timestampStr) = 10 -> unixTimeOf(timestampStr, 0)
           [] Len(timestampStr) = 13 -> unixTimeOf(timestampStr, 3)
           [] Len(timestampStr) = 16 -> unixTimeOf(timestampStr, 6)
           [] Len(timestampStr) = 19 -> unixTimeOf(timestampStr, 9)
           [] OTHER -> NoUnixTime

\* Digit texts of every length around those the regex takes: a first
\* digit, a run of one digit, and a last digit.
UnixTexts ==
    {<<head>> \o [i \in 1..(n - 2) |-> fill] \o <<tail>> :
        n \in (minUnixDigits - UnixMargin)..(maxUnixDigits + UnixMargin),
        head \in {0, 1, 9}, fill \in {0, 2, 9}, tail \in {0, 7}}

InitUnix ==
    /\ unixText \in UnixTexts
    /\ unixParsed = NoUnixTime
    /\ pc = "start"
    /\ logLine = <<>>
    /\ hintPattern = NoPattern
    /\ parsed = NoTimestamp
    /\ fs = OneFileFs(NoFile)
    /\ ws = NoWorkingSet
    /\ binCount = 0
    /\ globalRange = NoRange
    /\ bins = <<>>
    /\ startTime = ZeroTime
    /\ endTime = ZeroTime
    /\ mmapCount = 0
    /\ linearCount = 0
    /\ detect1 = NoDetection
    /\ detect2 = NoDetection
    /\ isLog = FALSE
    /\ bounds = NoBounds
    /\ fileBounds = <<>>
    /\ volumePoints = <<>>
    /\ err = Nil
    /\ panel = NoPanel
    /\ regexFilters = <<>>
    /\ lastUpdated = ZeroTime
    /\ volumeData = <<>>
    /\ analysis = NoAnalysis
    /\ startMode = TRUE
    /\ probeCount = 0
    /\ loopState = NoLoop
    /\ scannedFiles = {}
    /\ maxDepth = defaultMaxDepth
    /\ startPos = 0
    /\ endPos = 0
    /\ searcher = NoSearcher
    /\ mapErr = Nil
    /\ countResult = NoCount
    /\ openFiles = 0
    /\ mappings = 0

\* parseTimestampWithPattern(line, Audit) on msg=audit(<unixText>:1)
CallParseUnixTimestamp ==
    /\ pc = "start"
    /\ unixParsed' = parseUnix(unixText)
    /\ pc' = "unix"
    /\ UNCHANGED <<fs, ws, binCount, globalRange, bins, startTime, endTime,
                   mmapCount, linearCount, detect1, detect2, isLog, bounds,
                   fileBounds, volumePoints, err, startPos, endPos,
                   searcher, mapErr, countResult, openFiles, mappings,
                   logLine, hintPattern, parsed,
                   unixText, maxDepth, scannedFiles, loopState, probeCount,
                   startMode, analysis, volumeData, lastUpdated,
                   regexFilters, panel>>

NextUnix == CallParseUnixTimestamp

SpecUnix == InitUnix /\ [][NextUnix]_vars

\* The 19 digits of the nanoseconds since the epoch that a text of 10, 13,
\* 16 or 19 digits stands for as seconds, milli-, micro- or nanoseconds.
NanosecondsOf(timestampStr) ==
    timestampStr \o Zeros(maxUnixDigits - Len(timestampStr))

\* The digit counts the unix layout decodes.
UnixLengths == {10, 13, 16, 19}

\* C16 (as stated): a group of 10, 13, 16 or 19 digits is decoded as
\* seconds, milli-, micro- or nanoseconds since the epoch, a 10-digit s
\* and the 13-digit s*1000 decode to the same instant, and a group of any
\* other length fails.
C16_EveryGroupOfTheFourLengthsDecodes ==
    pc = "unix" =>
        IF Len(unixText) \in UnixLengths
        THEN /\ unixParsed.ok
             /\ unixParsed.sec \o unixParsed.nsec = NanosecondsOf(unixText)
             /\ Len(unixText) = 10
                   => parseUnix(unixText \o Zeros(3)) = unixParsed
        ELSE ~unixParsed.ok

\* C16 (as the code has it): a group of 10, 13, 16 or 19 digits that
\* strconv.ParseInt accepts as an int64 is decoded as seconds, milli-,
\* micro- or nanoseconds since the epoch, a 10-digit s and the 13-digit
\* s*1000 decode to the same instant, and every other group fails: one of
\* another length, and one of 19 digits above math.MaxInt64.
C16_GroupsWithinInt64Decode ==
    pc = "unix" =>
        IF Len(unixText) \in UnixLengths /\ ParseIntFits(unixText)
        THEN /\ unixParsed.ok
             /\ unixParsed.sec \o unixParsed.nsec = NanosecondsOf(unixText)
             /\ Len(unixText) = 10
                   => parseUnix(unixText \o Zeros(3)) = unixParsed
        ELSE ~unixParsed.ok

\* A 13-digit text that is not a whole number of seconds was decoded.
C16_Witness ==
    /\ pc = "unix"
    /\ Len(unixText) = 13
    /\ unixParsed.ok
    /\ unixParsed.nsec # Zeros(9)
    /\ unixParsed.sec # Zeros(10)

-----------------------------------------------------------------------------
(* Specification of BundleScanner.ScanBundle *)

(* The scannedFiles directory is BundlePath.  A file's path relative to it is   *)
(* the sequence of the names of the directories on the way to the file,    *)
(* followed by the file's name.  The order in which the walk meets the     *)
(* files is left out: the bundle is the set of its FileInfos.              *)

\* Names of directories, one of them with os.PathListSeparator (':') in it.
DirNames == {"var", "a:b"}

\* The number of ':' in a name.
Colons(name) == IF name = "a:b" THEN 1 ELSE 0

\* len(filepath.SplitList(relPath)): the path is split at ':', the
\* separator of the lists of paths, not at the separator of directories.
RECURSIVE SplitListLen(_)
SplitListLen(relPath) ==
    IF relPath = <<>> THEN 1
    ELSE Colons(Head(relPath)) + SplitListLen(Tail(relPath))

\* depth := len(filepath.SplitList(relPath))
depthOf(relPath) == SplitListLen(relPath)

\* Whether path lies in, or below, the directory dir.
IsBelow(path, dir) ==
    Len(path) > Len(dir) /\ SubSeq(path, 1, Len(dir)) = dir

\* The walk of afero.Walk from the directory dir of the tree whose files
\* are paths: the files the callback appends to allFiles.  A directory
\* other than the root whose depth exceeds the limit is skipped with all
\* it holds.
RECURSIVE walk(_, _, _)
walk(paths, dir, depthLimit) ==
    IF dir # <<>> /\ depthOf(dir) > depthLimit THEN {}
    ELSE {p \in paths : IsBelow(p, dir) /\ Len(p) = Len(dir) + 1}
         \cup UNION {walk(paths, dir \o <<name>>, depthLimit) :
                        name \in {p[Len(dir) + 1] :
                                     p \in {q \in paths : /\ IsBelow(q, dir)
                                                          /\ Len(q) > Len(dir) + 1}}}

\* collectAllFiles: relative to basePath, the files of the walk.
collectAllFiles(filesystem, basePath, depthLimit) ==
    walk({SubSeq(p, Len(basePath) + 1, Len(p)) :
             p \in {q \in DOMAIN filesystem.files : IsBelow(q, basePath)}},
         <<>>, depthLimit)

\* The bundles ScanBundle can return: a FileInfo for each file collected,
\* flagged IsLogFile by isLogFileByContent.
ScanBundle(filesystem, basePath, depthLimit) ==
    LET allFiles == collectAllFiles(filesystem, basePath, depthLimit)
    IN {{[Path |-> p, IsLogFile |-> flags[p]] : p \in allFiles} :
          flags \in {f \in [allFiles -> BOOLEAN] :
                        \A p \in allFiles :
                            \E r \in DetectBestPattern(
                                         filesystem.files[basePath \o p]) :
                                f[p] = isLogFileByContent(r)}}

\* The paths of the files a tree can hold: up to MaxTreeDepth directories
\* down.
TreePaths ==
    {dirs \o <<"x.log">> : dirs \in SeqsUpTo(DirNames, MaxTreeDepth)}

\* A file of plain text and a log file.
ScanFiles ==
    {[readable |-> TRUE, data |-> FileOfLines(lines, TRUE)] :
        lines \in {<<<<TX>>>>, <<<<TS("slash", 1)>>, <<TS("slash", 2)>>>>}}

\* The filesystems that hold up to MaxTreeFiles files below BundlePath.
ScanFilesystems ==
    {[isOsFs |-> TRUE, files |-> files] :
        files \in UNION {[{BundlePath \o p : p \in tree} -> ScanFiles] :
                            tree \in {{t[i] : i \in 1..Len(t)} :
                                         t \in SeqsUpTo(TreePaths, MaxTreeFiles)}}}

InitScan ==
    /\ fs \in ScanFilesystems
    /\ maxDepth = defaultMaxDepth
    /\ scannedFiles = {}
    /\ pc = "start"
    /\ unixText = <<>>
    /\ unixParsed = NoUnixTime
    /\ logLine = <<>>
    /\ hintPattern = NoPattern
    /\ parsed = NoTimestamp
    /\ ws = NoWorkingSet
    /\ binCount = 0
    /\ globalRange = NoRange
    /\ bins = <<>>
    /\ startTime = ZeroTime
    /\ endTime = ZeroTime
    /\ mmapCount = 0
    /\ linearCount = 0
    /\ detect1 = NoDetection
    /\ detect2 = NoDetection
    /\ isLog = FALSE
    /\ bounds = NoBounds
    /\ fileBounds = <<>>
    /\ volumePoints = <<>>
    /\ err = Nil
    /\ panel = NoPanel
    /\ regexFilters = <<>>
    /\ lastUpdated = ZeroTime
    /\ volumeData = <<>>
    /\ analysis = NoAnalysis
    /\ startMode = TRUE
    /\ probeCount = 0
    /\ loopState = NoLoop
    /\ startPos = 0
    /\ endPos = 0
    /\ searcher = NoSearcher
    /\ mapErr = Nil
    /\ countResult = NoCount
    /\ openFiles = 0
    /\ mappings = 0

\* bundleScanner.SetMaxDepth(maxDepth), with the value of --max-depth
SetMaxDepth ==
    /\ pc = "start"
    /\ maxDepth' \in 0..MaxDepthArg
    /\ pc' = "configured"
    /\ UNCHANGED <<ws, binCount, globalRange, bins, startTime, endTime,
                   mmapCount, linearCount, detect1, detect2, isLog, bounds,
                   fileBounds, volumePoints, err, startPos, endPos,
                   searcher, mapErr, countResult, openFiles, mappings,
                   logLine, hintPattern, parsed, unixText, unixParsed,
                   fs, scannedFiles, loopState, probeCount, startMode,
                   analysis, volumeData, lastUpdated, regexFilters, panel>>

\* bundle, err := bundleScanner.ScanBundle(path)
CallScanBundle ==
    /\ pc \in {"start", "configured"}
    /\ scannedFiles' \in ScanBundle(fs, BundlePath, maxDepth)
    /\ pc' = "scanned"
    /\ UNCHANGED <<ws, binCount, globalRange, bins, startTime, endTime,
                   mmapCount, linearCount, detect1, detect2, isLog, bounds,
                   fileBounds, volumePoints, err, startPos, endPos,
                   searcher, mapErr, countResult, openFiles, mappings,
                   logLine, hintPattern, parsed, unixText, unixParsed,
                   fs, maxDepth, loopState, probeCount, startMode, analysis,
                   volumeData, lastUpdated, regexFilters, panel>>

NextScan ==
    \/ SetMaxDepth
    \/ CallScanBundle

SpecScan == InitScan /\ [][NextScan]_vars

\* C19: ScanBundle with maximum depth d never includes in the bundle a
\* file that lies more than d directory levels below the scannedFiles root.
C19_NoFileBelowMaxDepth ==
    pc = "scanned" =>
        \A f \in scannedFiles : Len(f.Path) - 1 <= maxDepth


-----------------------------------------------------------------------------
(* Specification of the linear scan of a file of any content *)

\* How the lines of a file end: "\n" with the last line terminated or not,
\* or "\r\n".
LineEndings ==
    {[eol |-> <<NL>>, last |-> TRUE], [eol |-> <<NL>>, last |-> FALSE],
     [eol |-> <<CR, NL>>, last |-> TRUE]}

\* Files of up to MaxFileLines lines in any order (timestamped entries,
\* plain lines, empty lines).
LinearFiles ==
    {[readable |-> TRUE, data |-> FileOfLinesEol(lines, e.eol, e.last)] :
        lines \in SeqsUpTo(SearchLines, MaxFileLines), e \in LineEndings}

InitLinear ==
    /\ fs \in {OneFileFs(f) : f \in LinearFiles}
    /\ detect1 \in DetectBestPattern(fs.files[ThePath])
    /\ startTime \in Time
    /\ endTime \in Time
    /\ pc = "start"
    /\ linearCount = 0
    /\ ws = NoWorkingSet
    /\ binCount = 0
    /\ globalRange = NoRange
    /\ bins = <<>>
    /\ mmapCount = 0
    /\ detect2 = NoDetection
    /\ isLog = FALSE
    /\ bounds = NoBounds
    /\ fileBounds = <<>>
    /\ volumePoints = <<>>
    /\ err = Nil
    /\ panel = NoPanel
    /\ regexFilters = <<>>
    /\ lastUpdated = ZeroTime
    /\ volumeData = <<>>
    /\ analysis = NoAnalysis
    /\ startMode = TRUE
    /\ probeCount = 0
    /\ loopState = NoLoop
    /\ scannedFiles = {}
    /\ maxDepth = defaultMaxDepth
    /\ unixParsed = NoUnixTime
    /\ unixText = <<>>
    /\ parsed = NoTimestamp
    /\ hintPattern = NoPattern
    /\ logLine = <<>>
    /\ mappings = 0
    /\ openFiles = 0
    /\ countResult = NoCount
    /\ mapErr = Nil
    /\ searcher = NoSearcher
    /\ startPos = 0
    /\ endPos = 0

\* The file is scanned line by line with the pattern detected for it.
ScanFileLinearly ==
    /\ pc = "start"
    /\ LET r == countBytesInTimeRangeLinear(fs.files[ThePath], detect1.BestPattern,
                                            startTime, endTime)
       IN linearCount' = r.count /\ err' = r.err
    /\ pc' = "counted"
    /\ UNCHANGED <<fs, ws, binCount, globalRange, bins, startTime, endTime,
                   mmapCount, detect1, detect2, isLog, bounds, fileBounds,
                   volumePoints, startPos, endPos, searcher, mapErr,
                   countResult, openFiles, mappings, logLine, hintPattern,
                   parsed, unixText, unixParsed, maxDepth, scannedFiles,
                   loopState, probeCount, startMode, analysis, volumeData,
                   lastUpdated, regexFilters, panel>>

NextLinear == ScanFileLinearly

SpecLinear == InitLinear /\ [][NextLinear]_vars

\* The timestamp of each line the scanner delivers.
StampsOf(lines, bestPattern) ==
    [i \in 1..Len(lines) |-> ParseTimestamp(lines[i], bestPattern)]

\* Line i is attributed to the range: no line up to it is stamped after
\* the end, and it is stamped within the range or continues an entry that is.
attributed(stamp, start, end, i) ==
    /\ \A j \in 1..i : stamp[j].ok => stamp[j].t <= end
    /\ IF stamp[i].ok
       THEN start <= stamp[i].t
       ELSE \E k \in 1..(i - 1) :
               /\ stamp[k].ok
               /\ start <= stamp[k].t
               /\ \A m \in (k + 1)..(i - 1) : ~stamp[m].ok

\* The sum of (line length + 1) over the attributed lines among the first n.
RECURSIVE attributedBytes(_, _, _, _, _)
attributedBytes(lines, stamp, start, end, n) ==
    IF n = 0 THEN 0
    ELSE attributedBytes(lines, stamp, start, end, n - 1)
         + (IF attributed(stamp, start, end, n) THEN Len(lines[n]) + 1 ELSE 0)

-----------------------------------------------------------------------------
(* Claims about the attribution of a file's bytes to the bins (SpecHist) *)

\* The timestamps of the lines of a file never decrease.
OrderedFile(file, bestPattern) ==
    LET stamp == StampsOf(ScanLines(file.data), bestPattern)
    IN \A i, j \in DOMAIN stamp :
          (i < j /\ stamp[i].ok /\ stamp[j].ok) => stamp[i].t <= stamp[j].t

\* What the file of an entry contributes to the first n bins together.
RECURSIVE contributionToBins(_, _, _, _)
contributionToBins(filesystem, points, bound, n) ==
    IF n = 0 THEN 0
    ELSE contributionToBins(filesystem, points, bound, n - 1)
         + contribution(filesystem, points[n], bound)

\* C22: within one histogram no line of a file is attributed to more than
\* one bin: for every file whose timestamps never decrease, the sum over
\* the bins of what the file contributes is at most the size of the file.
C22_NoLineInTwoBins ==
    (pc = "histogram" /\ err = Nil) =>
        \A j \in 1..Len(fileBounds) :
            (/\ fileBounds[j].Valid
             /\ OrderedFile(fs.files[fileBounds[j].FilePath],
                            fileBounds[j].BestPattern))
            => contributionToBins(fs, volumePoints, fileBounds[j],
                                  Len(volumePoints))
                   <= Len(fs.files[fileBounds[j].FilePath].data)



-----------------------------------------------------------------------------
(* Claims about the global range of a histogram (SpecHist) *)

\* C23: whenever the bounds BuildHistogram extracted hold a valid entry,
\* FindGlobalTimeBounds returns a non-nil range with Start <= End, and
\* BuildHistogram does not fail with "failed to determine global time range".
C23_ValidBoundsGiveARange ==
    (pc = "histogram" /\ \E j \in 1..Len(fileBounds) : fileBounds[j].Valid) =>
        /\ ~FindGlobalTimeBounds(fileBounds).isNil
        /\ FindGlobalTimeBounds(fileBounds).Start
              <= FindGlobalTimeBounds(fileBounds).End
        /\ err # "failed to determine global time range"



-----------------------------------------------------------------------------
(* Specification of the loop of MmapFileSearcher.binarySearchTime *)

\* Non-empty files of up to MaxFileLines lines in any order (timestamped
\* entries, plain lines, empty lines), each line ended by "\n", the last
\* possibly unterminated.
ProbeFiles ==
    {f \in {[readable |-> TRUE, data |-> FileOfLines(lines, nl)] :
               lines \in SeqsUpTo(SearchLines, MaxFileLines), nl \in BOOLEAN} :
        f.data # <<>>}

\* binarySearchTime(startTime, startMode) is about to run on the mapped file.
InitProbe ==
    /\ fs \in {OneFileFs(f) : f \in ProbeFiles}
    /\ detect1 \in DetectBestPattern(fs.files[ThePath])
    /\ startTime \in Time
    /\ endTime = ZeroTime
    /\ pc = "start"
    /\ ws = NoWorkingSet
    /\ binCount = 0
    /\ globalRange = NoRange
    /\ bins = <<>>
    /\ mmapCount = 0
    /\ linearCount = 0
    /\ detect2 = NoDetection
    /\ isLog = FALSE
    /\ bounds = NoBounds
    /\ fileBounds = <<>>
    /\ volumePoints = <<>>
    /\ err = Nil
    /\ panel = NoPanel
    /\ regexFilters = <<>>
    /\ lastUpdated = ZeroTime
    /\ volumeData = <<>>
    /\ analysis = NoAnalysis
    /\ startMode \in BOOLEAN
    /\ probeCount = 0
    /\ loopState = NoLoop
    /\ scannedFiles = {}
    /\ maxDepth = defaultMaxDepth
    /\ unixParsed = NoUnixTime
    /\ unixText = <<>>
    /\ parsed = NoTimestamp
    /\ hintPattern = NoPattern
    /\ logLine = <<>>
    /\ mappings = 0
    /\ openFiles = 0
    /\ countResult = NoCount
    /\ mapErr = Nil
    /\ searcher = NoSearcher
    /\ startPos = 0
    /\ endPos = 0

\* left := 0; right := len(data); result := right
EnterBinarySearchTime ==
    /\ pc = "start"
    /\ loopState' = [left |-> 0, right |-> Len(fs.files[ThePath].data),
                     result |-> Len(fs.files[ThePath].data)]
    /\ probeCount' = 0
    /\ pc' = "loop"
    /\ UNCHANGED <<fs, ws, binCount, globalRange, bins, startTime, endTime,
                   mmapCount, linearCount, detect1, detect2, isLog, bounds,
                   fileBounds, volumePoints, err, startPos, endPos, searcher,
                   mapErr, countResult, openFiles, mappings, logLine,
                   hintPattern, parsed, unixText, unixParsed, maxDepth,
                   scannedFiles, startMode, analysis, volumeData,
                   lastUpdated, regexFilters, panel>>

\* One iteration of "for left < right".
ProbeMid ==
    /\ pc = "loop"
    /\ loopState.left < loopState.right
    /\ loopState' = binarySearchStep(fs.files[ThePath].data,
                                     detect1.BestPattern, startTime, startMode,
                                     loopState)
    /\ probeCount' = probeCount + 1
    /\ UNCHANGED <<fs, ws, pc, binCount, globalRange, bins, startTime, endTime,
                   mmapCount, linearCount, detect1, detect2, isLog, bounds,
                   fileBounds, volumePoints, err, startPos, endPos, searcher,
                   mapErr, countResult, openFiles, mappings, logLine,
                   hintPattern, parsed, unixText, unixParsed, maxDepth,
                   scannedFiles, startMode, analysis, volumeData,
                   lastUpdated, regexFilters, panel>>

\* return result
ReturnResult ==
    /\ pc = "loop"
    /\ loopState.left >= loopState.right
    /\ pc' = "returned"
    /\ UNCHANGED <<fs, ws, binCount, globalRange, bins, startTime, endTime,
                   mmapCount, linearCount, detect1, detect2, isLog, bounds,
                   fileBounds, volumePoints, err, startPos, endPos, searcher,
                   mapErr, countResult, openFiles, mappings, logLine,
                   hintPattern, parsed, unixText, unixParsed, maxDepth,
                   scannedFiles, loopState, probeCount, startMode, analysis,
                   volumeData, lastUpdated, regexFilters, panel>>

NextProbe ==
    \/ EnterBinarySearchTime
    \/ ProbeMid
    \/ ReturnResult

\* A step of the call is possible until it has returned, and each step
\* changes pc or probeCount.
ProbeEnabled == pc \in {"start", "loop"}

\* The goroutine that runs the call keeps taking steps: weak fairness of
\* NextProbe, WF_vars(NextProbe), with ENABLED <<NextProbe>>_vars written
\* out as ProbeEnabled.
SpecProbe ==
    /\ InitProbe
    /\ [][NextProbe]_vars
    /\ ([]<>(~ProbeEnabled) \/ []<><<NextProbe>>_vars)

\* floor(log2(n)) for n >= 1
RECURSIVE floorLog2(_)
floorLog2(n) == IF n <= 1 THEN 0 ELSE 1 + floorLog2(n \div 2)

\* An iteration sets right to mid, or moves left past mid.
HalvesTheWindow ==
    ProbeMid =>
        \/ loopState'.right = Mid(loopState) /\ loopState'.left = loopState.left
        \/ loopState'.left > Mid(loopState) /\ loopState'.right = loopState.right

\* C24: for any file content and any target the loop of binarySearchTime
\* terminates after at most floor(log2(fileSize)) + 1 probes, every
\* iteration either setting right to mid or moving left past mid.
C24_LoopEndsWithinLogProbes ==
    /\ [][HalvesTheWindow]_vars
    /\ [](probeCount <= floorLog2(Len(fs.files[ThePath].data)) + 1)
    /\ <>(pc = "returned")

\* A search of a file whose timestamps are out of order has returned after
\* exactly floor(log2(fileSize)) + 1 probes, having moved both ends.
C24_Witness ==
    /\ pc = "returned"
    /\ ~TimestampsNonDecreasing
    /\ Len(fs.files[ThePath].data) >= 4
    /\ probeCount = floorLog2(Len(fs.files[ThePath].data)) + 1
    /\ loopState.left > 0
    /\ loopState.right < Len(fs.files[ThePath].data)



-----------------------------------------------------------------------------
(* Claims about the overlap filter of BuildHistogram (SpecHist) *)

\* The filter of BuildHistogram skips the file of an entry for the bin of
\* a point.
skipped(point, bound) ==
    bound.Latest < point.BinStart \/ bound.Earliest > point.BinEnd

\* C25: the overlap filter of BuildHistogram is a pure optimisation: for
\* a file whose timestamps never decrease, whenever the file is skipped
\* for a bin, countBytesInTimeRange would have returned 0 for that file
\* and bin.
C25_SkippedFilesHaveNoBytes ==
    (pc = "histogram" /\ err = Nil) =>
        \A i \in 1..Len(volumePoints), j \in 1..Len(fileBounds) :
            (/\ fileBounds[j].Valid
             /\ OrderedFile(fs.files[fileBounds[j].FilePath],
                            fileBounds[j].BestPattern)
             /\ skipped(volumePoints[i], fileBounds[j]))
            => countOrZero(countBytesInTimeRange(
                               fs, fileBounds[j].FilePath,
                               fileBounds[j].BestPattern,
                               volumePoints[i].BinStart,
                               volumePoints[i].BinEnd)) = 0



-----------------------------------------------------------------------------
(* VolumeAnalyzer: GetTimeBounds, AnalyzeDistribution and
   HistogramBuilder.UpdateWorkingSetHistogram *)

\* The results GetTimeBounds can return.
GetTimeBounds(filesystem, workingSet) ==
    IF workingSet.isNil
    THEN {[range |-> NoRange, err |-> "working set cannot be nil"]}
    ELSE {IF extracted.err # Nil
          THEN [range |-> NoRange, err |-> "failed to extract file bounds"]
          ELSE IF FindGlobalTimeBounds(extracted.bounds).isNil
          THEN [range |-> NoRange,
                err |-> "no valid time range found in selected files"]
          ELSE [range |-> FindGlobalTimeBounds(extracted.bounds), err |-> Nil] :
             extracted \in ExtractBoundsFromWorkingSet(filesystem, workingSet)}

\* The loop of AnalyzeDistribution over the points left.
RECURSIVE analyzeLoop(_, _)
analyzeLoop(pointsLeft, a) ==
    IF pointsLeft = <<>> THEN a
    ELSE analyzeLoop(
           Tail(pointsLeft),
           [a EXCEPT
              !.TotalLines = @ + Head(pointsLeft).Count,
              !.TotalSize = @ + Head(pointsLeft).Size,
              !.PeakBinLines = Max(@, Head(pointsLeft).Count),
              !.EmptyBins = IF Head(pointsLeft).Count = 0 THEN @ + 1 ELSE @,
              !.TotalFiles = Max(@, Head(pointsLeft).FileCount)])

\* AnalyzeDistribution; the average is kept as a fraction and the time span
\* as the two instants it prints.
AnalyzeDistribution(series) ==
    IF Len(series) = 0 THEN NoAnalysis
    ELSE [analyzeLoop(series, NoAnalysis) EXCEPT
            !.AveragePerBin = [num |-> analyzeLoop(series, NoAnalysis).TotalLines,
                               den |-> Len(series)],
            !.TimeSpan = <<series[1].BinStart, series[Len(series)].BinEnd>>]

\* What UpdateWorkingSetHistogram returns and leaves in the working set.
UpdateResult(error, data, updated) ==
    [err |-> error, VolumeData |-> data, LastUpdated |-> updated]

\* An update that stores what BuildHistogram returned before looking at
\* its error.
UpdateWorkingSetHistogram_WritesOnError(filesystem, workingSet, data, updated, count, now) ==
    {UpdateResult(IF r.err # Nil THEN "failed to build histogram" ELSE Nil,
                  r.volumePoints, now) :
        r \in BuildHistogram(filesystem, workingSet, count)}

\* The outcomes of UpdateWorkingSetHistogram on a working set whose
\* VolumeData and LastUpdated are data and updated, at the instant now.
UpdateWorkingSetHistogram(filesystem, workingSet, data, updated, count, now) ==
    {IF r.err # Nil
     THEN UpdateResult("failed to build histogram", data, updated)
     ELSE UpdateResult(Nil, r.volumePoints, now) :
        r \in BuildHistogram(filesystem, workingSet, count)}

-----------------------------------------------------------------------------
(* Specification of the calls of VolumeAnalyzer on a working set *)

\* The VolumeData of a working set whose histogram was built before.
EarlierVolumeData == <<VolumePoint(1, 1, 0, 1, 1)>>

InitAnalyzer ==
    /\ fs \in BundleFilesystems(BOOLEAN, SecondFiles, SecondFiles)
    /\ ws \in HistogramWorkingSets
    /\ pc = "start"
    /\ binCount \in 0..MaxBins
    /\ globalRange = NoRange
    /\ bins = <<>>
    /\ startTime = ZeroTime
    /\ endTime = ZeroTime
    /\ mmapCount = 0
    /\ linearCount = 0
    /\ detect1 = NoDetection
    /\ detect2 = NoDetection
    /\ isLog = FALSE
    /\ bounds = NoBounds
    /\ fileBounds = <<>>
    /\ volumePoints = <<>>
    /\ err = Nil
    /\ panel = NoPanel
    /\ regexFilters = <<>>
    /\ lastUpdated = ZeroTime
    /\ volumeData \in {<<>>, EarlierVolumeData}
    /\ analysis = NoAnalysis
    /\ startMode = TRUE
    /\ probeCount = 0
    /\ loopState = NoLoop
    /\ scannedFiles = {}
    /\ maxDepth = defaultMaxDepth
    /\ unixParsed = NoUnixTime
    /\ unixText = <<>>
    /\ parsed = NoTimestamp
    /\ hintPattern = NoPattern
    /\ logLine = <<>>
    /\ mappings = 0
    /\ openFiles = 0
    /\ countResult = NoCount
    /\ mapErr = Nil
    /\ searcher = NoSearcher
    /\ endPos = 0
    /\ startPos = 0

\* globalRange, err := va.GetTimeBounds(ws)
CallGetTimeBounds ==
    /\ pc = "start"
    /\ \E r \in GetTimeBounds(fs, ws) :
          /\ globalRange' = r.range
          /\ err' = r.err
    /\ pc' = "bounds"
    /\ UNCHANGED <<fs, ws, binCount, bins, startTime, endTime, mmapCount,
                   linearCount, detect1, detect2, isLog, bounds, startPos,
                   endPos, searcher, mapErr, countResult, openFiles, mappings,
                   logLine, hintPattern, parsed, unixText, unixParsed,
                   maxDepth, scannedFiles, loopState, probeCount, startMode,
                   fileBounds, volumePoints, analysis, volumeData, lastUpdated,
                   regexFilters, panel>>

\* err := va.UpdateWorkingSetVolumeData(ws, binCount), at any later instant.
CallUpdateWorkingSetVolumeData ==
    /\ pc = "start"
    /\ \E now \in Time :
          \E r \in UpdateWorkingSetHistogram(fs, ws, volumeData, lastUpdated,
                                             binCount, now) :
             /\ err' = r.err
             /\ volumeData' = r.VolumeData
             /\ lastUpdated' = r.LastUpdated
    /\ pc' = "updated"
    /\ UNCHANGED <<fs, ws, binCount, bins, startTime, endTime, mmapCount,
                   linearCount, detect1, detect2, isLog, bounds, startPos,
                   endPos, searcher, mapErr, countResult, openFiles, mappings,
                   logLine, hintPattern, parsed, unixText, unixParsed,
                   maxDepth, scannedFiles, loopState, probeCount, startMode,
                   globalRange, fileBounds, volumePoints, analysis,
                   regexFilters, panel>>

\* analysis := va.AnalyzeDistribution(volumePoints)
CallAnalyzeDistribution ==
    /\ pc = "histogram"
    /\ analysis' = AnalyzeDistribution(volumePoints)
    /\ pc' = "analyzed"
    /\ UNCHANGED <<fs, ws, binCount, bins, startTime, endTime, mmapCount,
                   linearCount, detect1, detect2, isLog, bounds, startPos,
                   endPos, searcher, mapErr, countResult, openFiles, mappings,
                   logLine, hintPattern, parsed, unixText, unixParsed,
                   maxDepth, scannedFiles, loopState, probeCount, startMode,
                   globalRange, fileBounds, volumePoints, err, volumeData,
                   lastUpdated, regexFilters, panel>>

NextAnalyzer ==
    \/ CallGenerateHistogram
    \/ CallGetTimeBounds
    \/ CallUpdateWorkingSetVolumeData
    \/ CallAnalyzeDistribution

SpecAnalyzer == InitAnalyzer /\ [][NextAnalyzer]_vars

\* C26: for every series BuildHistogram returned, AnalyzeDistribution
\* reports as EmptyBins the number of bins that received no bytes (Size = 0).
C26_EmptyBinsAreBinsWithoutBytes ==
    (pc = "analyzed" /\ err = Nil) =>
        analysis.EmptyBins =
            Cardinality({i \in 1..Len(volumePoints) : volumePoints[i].Size = 0})

\* C27: GenerateHistogram (BuildHistogram) and GetTimeBounds leave the
\* selection, VolumeData and LastUpdated of the working set as they were;
\* UpdateWorkingSetHistogram stores the points and the time in VolumeData
\* and LastUpdated only when BuildHistogram succeeded and leaves the working
\* set as it was when it returns an error.
C27_OnlyASuccessfulUpdateWrites ==
    [][/\ ws' = ws
       /\ pc' \in {"histogram", "bounds", "analyzed"}
             => UNCHANGED <<volumeData, lastUpdated,
                   regexFilters, panel>>
       /\ (pc' = "updated" /\ err' # Nil)
             => UNCHANGED <<volumeData, lastUpdated,
                   regexFilters, panel>>
       /\ (pc' = "updated" /\ err' = Nil)
             => /\ lastUpdated' \in Time
                /\ \E r \in BuildHistogram(fs, ws, binCount) :
                      r.err = Nil /\ volumeData' = r.volumePoints]_vars

\* An update of a working set with earlier VolumeData and a selected
\* readable file has failed and the earlier VolumeData is still there.
C27_Witness ==
    /\ pc = "updated"
    /\ ~ws.isNil /\ ws.hasBundle
    /\ err # Nil
    /\ volumeData = EarlierVolumeData
    /\ lastUpdated = ZeroTime
    /\ \E f \in ws.SelectedFiles : fs.files[BundlePath \o f].readable



-----------------------------------------------------------------------------
(* Claims about what binarySearchTime returns on any file (SpecProbe) *)

\* The line that starts at offset pos parses and satisfies the predicate
\* of the search.
MatchingLineAt(data, bestPattern, targetTime, searchStart, pos) ==
    /\ pos \in LineStarts(data)
    /\ parseTimestampAt(data, bestPattern, pos).ok
    /\ IF searchStart
       THEN parseTimestampAt(data, bestPattern, pos).t >= targetTime
       ELSE parseTimestampAt(data, bestPattern, pos).t > targetTime

\* BinarySearchTimeRange's byte count when one of its two searches returned
\* pos and the other one is the search for the instant other.
RangeWith(data, bestPattern, searchStart, pos, other) ==
    IF searchStart
    THEN byteCountBetween(data, pos,
                          binarySearchTime(data, bestPattern, other, FALSE))
    ELSE byteCountBetween(data,
                          binarySearchTime(data, bestPattern, other, TRUE), pos)

\* C28: for any file content and any target, binarySearchTime returns the
\* file size or the start offset of a line with a parseable timestamp that
\* satisfies the search predicate (>= target in start mode, > target in
\* end mode); BinarySearchTimeRange is then between 0 and the file size.
C28_ResultIsSizeOrAMatchingLine ==
    pc = "returned" =>
        /\ \/ loopState.result = Len(fs.files[ThePath].data)
           \/ MatchingLineAt(fs.files[ThePath].data, detect1.BestPattern,
                             startTime, startMode, loopState.result)
        /\ \A other \in Time :
              RangeWith(fs.files[ThePath].data, detect1.BestPattern,
                        startMode, loopState.result, other)
                  \in 0..Len(fs.files[ThePath].data)

\* A search of a file whose timestamps are out of order has returned the
\* start of a line that is neither the first line nor the end of the file.
C28_Witness ==
    /\ pc = "returned"
    /\ ~TimestampsNonDecreasing
    /\ loopState.result > 0
    /\ loopState.result < Len(fs.files[ThePath].data)
    /\ probeCount > 1



-----------------------------------------------------------------------------
(* AppModel.handleRegexFiltersChange and applyOrderedRegexFiltering *)

\* Pattern texts: one that matches only a.log, one that matches every path
\* of the bundle, one that does not compile.
RegexTexts == {"a", "log", "("}

\* regexp.Compile succeeds
regexpCompiles(text) == text # "("

\* Compiled.MatchString(file.Path)
regexpMatchString(text, path) ==
    \/ text = "log"
    \/ text = "a" /\ path = FileA

\* A models.RegexFilter; Compiled tells whether the compiled regex is there.
RegexFilter(text, take) ==
    [Pattern |-> text, Take |-> take, Compiled |-> regexpCompiles(text),
     Valid |-> regexpCompiles(text)]

\* No filter has matched the file.
NoMatch == [exists |-> FALSE, Take |-> FALSE]

\* A loop that keeps the first filter that matches the file.
RECURSIVE lastMatchingRegex_FirstMatchWins(_, _, _)
lastMatchingRegex_FirstMatchWins(filtersLeft, path, lastMatch) ==
    IF filtersLeft = <<>> THEN lastMatch
    ELSE lastMatchingRegex_FirstMatchWins(
           Tail(filtersLeft), path,
           IF /\ ~lastMatch.exists
              /\ Head(filtersLeft).Valid /\ Head(filtersLeft).Compiled
              /\ regexpMatchString(Head(filtersLeft).Pattern, path)
           THEN [exists |-> TRUE, Take |-> Head(filtersLeft).Take]
           ELSE lastMatch)

\* The entry of lastMatchingRegex for a path after the filters left have
\* been applied in order.
RECURSIVE lastMatchingRegex(_, _, _)
lastMatchingRegex(filtersLeft, path, lastMatch) ==
    IF filtersLeft = <<>> THEN lastMatch
    ELSE lastMatchingRegex(
           Tail(filtersLeft), path,
           IF /\ Head(filtersLeft).Valid /\ Head(filtersLeft).Compiled
              /\ regexpMatchString(Head(filtersLeft).Pattern, path)
           THEN [exists |-> TRUE, Take |-> Head(filtersLeft).Take]
           ELSE lastMatch)

\* The paths of the files of the bundle.
bundlePaths(workingSet) ==
    {workingSet.Files[i].Path : i \in 1..Len(workingSet.Files)}

\* applyOrderedRegexFiltering: the working set after it; SelectedFiles holds
\* the paths whose map entry is true.
applyOrderedRegexFiltering(workingSet, filters) ==
    IF workingSet.isNil \/ ~workingSet.hasBundle THEN workingSet
    ELSE [workingSet EXCEPT !.SelectedFiles =
            (@ \ bundlePaths(workingSet)) \cup
            {path \in bundlePaths(workingSet) :
                /\ lastMatchingRegex(filters, path, NoMatch).exists
                /\ lastMatchingRegex(filters, path, NoMatch).Take}]

-----------------------------------------------------------------------------
(* Specification of the handling of a RegexFiltersChangedMsg *)

\* The ordered filter lists a message can carry.
MessageFilters ==
    SeqsUpTo({RegexFilter(text, take) : text \in RegexTexts, take \in BOOLEAN},
             MaxFilters)

\* The filter list left by an earlier message.
EarlierFilters == <<RegexFilter("log", FALSE)>>

InitFilter ==
    /\ fs = OneFileFs(NoFile)
    /\ ws \in WorkingSets
    /\ pc = "start"
    /\ binCount = 0
    /\ globalRange = NoRange
    /\ bins = <<>>
    /\ startTime = ZeroTime
    /\ endTime = ZeroTime
    /\ mmapCount = 0
    /\ linearCount = 0
    /\ detect1 = NoDetection
    /\ detect2 = NoDetection
    /\ isLog = FALSE
    /\ bounds = NoBounds
    /\ fileBounds = <<>>
    /\ volumePoints = <<>>
    /\ err = Nil
    /\ panel = NoPanel
    /\ regexFilters \in {<<>>, EarlierFilters}
    /\ lastUpdated = ZeroTime
    /\ volumeData = <<>>
    /\ analysis = NoAnalysis
    /\ startMode = TRUE
    /\ probeCount = 0
    /\ loopState = NoLoop
    /\ scannedFiles = {}
    /\ maxDepth = defaultMaxDepth
    /\ unixParsed = NoUnixTime
    /\ unixText = <<>>
    /\ parsed = NoTimestamp
    /\ hintPattern = NoPattern
    /\ logLine = <<>>
    /\ mappings = 0
    /\ openFiles = 0
    /\ countResult = NoCount
    /\ mapErr = Nil
    /\ searcher = NoSearcher
    /\ endPos = 0
    /\ startPos = 0

\* case messages.RegexFiltersChangedMsg: m.handleRegexFiltersChange(msg),
\* at any instant.
HandleRegexFiltersChangedMsg ==
    /\ pc = "start"
    /\ \E filters \in MessageFilters, now \in Time :
          IF ws.isNil
          THEN UNCHANGED <<ws, regexFilters, lastUpdated,
                   panel>>
          ELSE /\ regexFilters' = filters
               /\ ws' = applyOrderedRegexFiltering(ws, filters)
               /\ lastUpdated' = now
    /\ pc' = "filtered"
    /\ UNCHANGED <<fs, binCount, globalRange, bins, startTime, endTime,
                   mmapCount, linearCount, detect1, detect2, isLog, bounds,
                   fileBounds, volumePoints, err, startPos, endPos, searcher,
                   mapErr, countResult, openFiles, mappings, logLine,
                   hintPattern, parsed, unixText, unixParsed, maxDepth,
                   scannedFiles, loopState, probeCount, startMode, analysis,
                   volumeData, panel>>

NextFilter == HandleRegexFiltersChangedMsg

SpecFilter == InitFilter /\ [][NextFilter]_vars

\* Filter i of the list is valid and matches the path.
validMatch(filters, i, path) ==
    filters[i].Valid /\ regexpMatchString(filters[i].Pattern, path)

\* C29: after the application has handled a RegexFiltersChangedMsg, a file
\* of the bundle is selected if and only if some valid filter of the list
\* matches its path and the last such filter is an include filter
\* (Take = true), whatever was selected before.
C29_SelectedIffLastMatchIsInclude ==
    (pc = "filtered" /\ ~ws.isNil /\ ws.hasBundle) =>
        \A path \in bundlePaths(ws) :
            path \in ws.SelectedFiles <=>
                \E i \in 1..Len(regexFilters) :
                    /\ validMatch(regexFilters, i, path)
                    /\ regexFilters[i].Take
                    /\ \A j \in (i + 1)..Len(regexFilters) :
                          ~validMatch(regexFilters, j, path)

\* A message with an include filter for both files followed by an exclude
\* filter for a.log has been handled: b.log is selected and a.log is not.
C29_Witness ==
    /\ pc = "filtered"
    /\ ~ws.isNil /\ ws.hasBundle
    /\ regexFilters = <<RegexFilter("log", TRUE), RegexFilter("a", FALSE)>>
    /\ ws.SelectedFiles = {FileB}



-----------------------------------------------------------------------------
(* The unified regex panel: regex.Model and its Update *)

\* strings.TrimSpace of the text of the edit input
trimmedValue(text) == IF text = " " THEN "" ELSE text

\* compilePattern: the pattern gets the type of newPatternType.
compilePattern(m, text) ==
    [Text |-> text, Type |-> m.newPatternType, Valid |-> regexpCompiles(text),
     MatchCount |-> 0]

\* countMatches
countMatches(m, pattern) ==
    IF ~pattern.Valid THEN 0
    ELSE Cardinality({f \in m.allFiles : regexpMatchString(pattern.Text, f)})

\* testPatterns
testPatterns(m) ==
    [m EXCEPT !.patterns =
        [i \in 1..Len(m.patterns) |->
            [m.patterns[i] EXCEPT !.MatchCount = countMatches(m, m.patterns[i])]]]

hasPatternAtCursor(m) == m.cursor >= 0 /\ m.cursor < Len(m.patterns)

moveCursorUp(m) ==
    IF m.cursor > 0 THEN [m EXCEPT !.cursor = @ - 1]
    ELSE IF Len(m.patterns) > 0 THEN [m EXCEPT !.cursor = Len(m.patterns) - 1]
    ELSE m

moveCursorDown(m) ==
    IF Len(m.patterns) = 0 THEN [m EXCEPT !.cursor = 0]
    ELSE IF m.cursor < Len(m.patterns) - 1 THEN [m EXCEPT !.cursor = @ + 1]
    ELSE [m EXCEPT !.cursor = 0]

startAddPattern(m) ==
    [m EXCEPT !.editMode = TRUE, !.editIndex = -1, !.editInput = ""]

startEditPattern(m) ==
    IF ~hasPatternAtCursor(m) THEN m
    ELSE [m EXCEPT !.editMode = TRUE, !.editIndex = m.cursor,
                   !.editInput = m.patterns[m.cursor + 1].Text]

cancelEdit(m) ==
    [m EXCEPT !.editMode = FALSE, !.editIndex = -1, !.editInput = ""]

\* confirmEdit; the patterns are 0-based in the code and 1-based here.
confirmEdit(m) ==
    IF trimmedValue(m.editInput) = "" THEN cancelEdit(m)
    ELSE IF m.editIndex = -1
    THEN cancelEdit(testPatterns(
            [m EXCEPT !.patterns =
                         Append(@, compilePattern(m, trimmedValue(m.editInput))),
                      !.cursor = Len(m.patterns)]))
    ELSE cancelEdit(testPatterns(
            [m EXCEPT !.patterns[m.editIndex + 1] =
                         compilePattern(m, trimmedValue(m.editInput))]))

deletePattern(m) ==
    IF ~hasPatternAtCursor(m) THEN m
    ELSE testPatterns(
           [m EXCEPT !.patterns = SubSeq(@, 1, m.cursor)
                                  \o SubSeq(@, m.cursor + 2, Len(@)),
                     !.cursor = IF m.cursor >= Len(m.patterns) - 1
                                THEN Max(Len(m.patterns) - 2, 0) ELSE @])

\* Model.Update for a key message; in edit mode every key but enter and esc
\* goes to the text input.
Update(m, key) ==
    IF m.editMode
    THEN IF key = "enter" THEN confirmEdit(m)
         ELSE IF key = "esc" THEN cancelEdit(m)
         ELSE m
    ELSE IF key \in {"up", "k"} THEN moveCursorUp(m)
    ELSE IF key \in {"down", "j"} THEN moveCursorDown(m)
    ELSE IF key = "a"
    THEN startAddPattern([m EXCEPT !.newPatternType = IncludeType])
    ELSE IF key = "A"
    THEN startAddPattern([m EXCEPT !.newPatternType = ExcludeType])
    ELSE IF key = "e" THEN startEditPattern(m)
    ELSE IF key \in {"d", "delete"} THEN deletePattern(m)
    ELSE IF key = "enter"
    THEN IF hasPatternAtCursor(m) THEN startEditPattern(m)
         ELSE startAddPattern([m EXCEPT !.newPatternType = IncludeType])
    ELSE m

-----------------------------------------------------------------------------
(* Specification of the regex panel under key presses *)

\* What the text input can hold after typing.
EditTexts == {"a", "log", "(", " "}

InitPanel ==
    /\ fs = OneFileFs(NoFile)
    /\ ws = NoWorkingSet
    /\ pc = "start"
    /\ binCount = 0
    /\ globalRange = NoRange
    /\ bins = <<>>
    /\ startTime = ZeroTime
    /\ endTime = ZeroTime
    /\ mmapCount = 0
    /\ linearCount = 0
    /\ detect1 = NoDetection
    /\ detect2 = NoDetection
    /\ isLog = FALSE
    /\ bounds = NoBounds
    /\ fileBounds = <<>>
    /\ volumePoints = <<>>
    /\ err = Nil
    /\ panel = NoPanel
    /\ regexFilters = <<>>
    /\ lastUpdated = ZeroTime
    /\ volumeData = <<>>
    /\ analysis = NoAnalysis
    /\ startMode = TRUE
    /\ probeCount = 0
    /\ loopState = NoLoop
    /\ scannedFiles = {}
    /\ maxDepth = defaultMaxDepth
    /\ unixParsed = NoUnixTime
    /\ unixText = <<>>
    /\ parsed = NoTimestamp
    /\ hintPattern = NoPattern
    /\ logLine = <<>>
    /\ mappings = 0
    /\ openFiles = 0
    /\ countResult = NoCount
    /\ mapErr = Nil
    /\ searcher = NoSearcher
    /\ endPos = 0
    /\ startPos = 0

\* case "up", "k"
PressUp ==
    /\ ~panel.editMode
    /\ panel' = Update(panel, "up")
    /\ UNCHANGED <<fs, ws, pc, binCount, globalRange, bins, startTime, endTime,
                   mmapCount, linearCount, detect1, detect2, isLog, bounds,
                   fileBounds, volumePoints, err, startPos, endPos, searcher,
                   mapErr, countResult, openFiles, mappings, logLine,
                   hintPattern, parsed, unixText, unixParsed, maxDepth,
                   scannedFiles, loopState, probeCount, startMode, analysis,
                   volumeData, lastUpdated, regexFilters>>

\* case "down", "j"
PressDown ==
    /\ ~panel.editMode
    /\ panel' = Update(panel, "down")
    /\ UNCHANGED <<fs, ws, pc, binCount, globalRange, bins, startTime, endTime,
                   mmapCount, linearCount, detect1, detect2, isLog, bounds,
                   fileBounds, volumePoints, err, startPos, endPos, searcher,
                   mapErr, countResult, openFiles, mappings, logLine,
                   hintPattern, parsed, unixText, unixParsed, maxDepth,
                   scannedFiles, loopState, probeCount, startMode, analysis,
                   volumeData, lastUpdated, regexFilters>>

\* case "a", while the list has room
PressAddInclude ==
    /\ ~panel.editMode /\ Len(panel.patterns) < MaxPatterns
    /\ panel' = Update(panel, "a")
    /\ UNCHANGED <<fs, ws, pc, binCount, globalRange, bins, startTime, endTime,
                   mmapCount, linearCount, detect1, detect2, isLog, bounds,
                   fileBounds, volumePoints, err, startPos, endPos, searcher,
                   mapErr, countResult, openFiles, mappings, logLine,
                   hintPattern, parsed, unixText, unixParsed, maxDepth,
                   scannedFiles, loopState, probeCount, startMode, analysis,
                   volumeData, lastUpdated, regexFilters>>

\* case "A", while the list has room
PressAddExclude ==
    /\ ~panel.editMode /\ Len(panel.patterns) < MaxPatterns
    /\ panel' = Update(panel, "A")
    /\ UNCHANGED <<fs, ws, pc, binCount, globalRange, bins, startTime, endTime,
                   mmapCount, linearCount, detect1, detect2, isLog, bounds,
                   fileBounds, volumePoints, err, startPos, endPos, searcher,
                   mapErr, countResult, openFiles, mappings, logLine,
                   hintPattern, parsed, unixText, unixParsed, maxDepth,
                   scannedFiles, loopState, probeCount, startMode, analysis,
                   volumeData, lastUpdated, regexFilters>>

\* case "e"
PressEdit ==
    /\ ~panel.editMode
    /\ panel' = Update(panel, "e")
    /\ UNCHANGED <<fs, ws, pc, binCount, globalRange, bins, startTime, endTime,
                   mmapCount, linearCount, detect1, detect2, isLog, bounds,
                   fileBounds, volumePoints, err, startPos, endPos, searcher,
                   mapErr, countResult, openFiles, mappings, logLine,
                   hintPattern, parsed, unixText, unixParsed, maxDepth,
                   scannedFiles, loopState, probeCount, startMode, analysis,
                   volumeData, lastUpdated, regexFilters>>

\* case "d", "delete"
PressDelete ==
    /\ ~panel.editMode
    /\ panel' = Update(panel, "d")
    /\ UNCHANGED <<fs, ws, pc, binCount, globalRange, bins, startTime, endTime,
                   mmapCount, linearCount, detect1, detect2, isLog, bounds,
                   fileBounds, volumePoints, err, startPos, endPos, searcher,
                   mapErr, countResult, openFiles, mappings, logLine,
                   hintPattern, parsed, unixText, unixParsed, maxDepth,
                   scannedFiles, loopState, probeCount, startMode, analysis,
                   volumeData, lastUpdated, regexFilters>>

\* case "enter", in either mode; it adds only while the list has room
PressEnter ==
    /\ (panel.editMode \/ hasPatternAtCursor(panel)
          \/ Len(panel.patterns) < MaxPatterns)
    /\ panel' = Update(panel, "enter")
    /\ UNCHANGED <<fs, ws, pc, binCount, globalRange, bins, startTime, endTime,
                   mmapCount, linearCount, detect1, detect2, isLog, bounds,
                   fileBounds, volumePoints, err, startPos, endPos, searcher,
                   mapErr, countResult, openFiles, mappings, logLine,
                   hintPattern, parsed, unixText, unixParsed, maxDepth,
                   scannedFiles, loopState, probeCount, startMode, analysis,
                   volumeData, lastUpdated, regexFilters>>

\* case "esc" in edit mode
PressEsc ==
    /\ panel.editMode
    /\ panel' = Update(panel, "esc")
    /\ UNCHANGED <<fs, ws, pc, binCount, globalRange, bins, startTime, endTime,
                   mmapCount, linearCount, detect1, detect2, isLog, bounds,
                   fileBounds, volumePoints, err, startPos, endPos, searcher,
                   mapErr, countResult, openFiles, mappings, logLine,
                   hintPattern, parsed, unixText, unixParsed, maxDepth,
                   scannedFiles, loopState, probeCount, startMode, analysis,
                   volumeData, lastUpdated, regexFilters>>

\* Any other key in edit mode: m.editInput.Update(msg) changes the text.
TypeText ==
    /\ panel.editMode
    /\ \E text \in EditTexts : panel' = [panel EXCEPT !.editInput = text]
    /\ UNCHANGED <<fs, ws, pc, binCount, globalRange, bins, startTime, endTime,
                   mmapCount, linearCount, detect1, detect2, isLog, bounds,
                   fileBounds, volumePoints, err, startPos, endPos, searcher,
                   mapErr, countResult, openFiles, mappings, logLine,
                   hintPattern, parsed, unixText, unixParsed, maxDepth,
                   scannedFiles, loopState, probeCount, startMode, analysis,
                   volumeData, lastUpdated, regexFilters>>

NextPanel ==
    \/ PressUp
    \/ PressDown
    \/ PressAddInclude
    \/ PressAddExclude
    \/ PressEdit
    \/ PressDelete
    \/ PressEnter
    \/ PressEsc
    \/ TypeText

SpecPanel == InitPanel /\ [][NextPanel]_vars

\* C30: after any sequence of add-include, add-exclude, cursor moves,
\* edits and deletes, confirming the edit of an existing pattern keeps the
\* include/exclude type of that pattern.
C30_EditKeepsType ==
    [][(/\ PressEnter
        /\ panel.editMode
        /\ panel.editIndex # -1
        /\ trimmedValue(panel.editInput) # "")
       => panel'.patterns[panel.editIndex + 1].Type
             = panel.patterns[panel.editIndex + 1].Type]_vars


=============================================================================
